---- MODULE Spec2Model ----
(***************************************************************************)
(* State-machine model of the spec-extraction workflow (Strive):           *)
(*   - the LangGraph workflow of Spec-poc-master-pnsBase/src/agents        *)
(*     (extraction nodes, wait_for_completion + check_all_agents_completed,*)
(*     triangulate_results, handle_all_failed, run_workflow);              *)
(*   - the consensus parser and its safety net                             *)
(*     (TriangulationAgent._parse_triangulation_result);                   *)
(*   - the completion gate as a pure function of an arbitrary state.       *)
(*   - the job record of the API service (pnsBase-fastApi).                *)
(* The specifications share the variables:                                 *)
(*   Spec       one run of run_workflow, from create_initial_state         *)
(*   SpecRuns   run_workflow called again on the workflow singleton        *)
(*   SpecStream one run of stream_workflow and its consumer                *)
(*   SpecGate   check_all_agents_completed on every status assignment      *)
(*   SpecParse  _parse_triangulation_result on bounded oracle texts        *)
(*   SpecRows   _parse_triangulation_result on lines of every shape        *)
(*   SpecJob    process_analysis_job and the Redis job hash                *)
(*   SpecRead   one job and the readers of its results                     *)
(*   SpecTask   one process_source call, oracle call by oracle call        *)
(***************************************************************************)
EXTENDS Integers, Sequences, FiniteSets, TLC

VARIABLES
    uploaded_files,         \* state["uploaded_files"]: source key -> number of data rows of its CSV
    status,                 \* state["<source>_status"], one field per source
    result,                 \* state["<source>_result"], one field per source
    error,                  \* state["<source>_error"], one field per source
    current_step,           \* state["current_step"]
    progress_percentage,    \* state["progress_percentage"]
    logs,                   \* state["logs"], reducer operator.add (concatenation)
    triangulated_result,    \* state["triangulated_result"]
    triangulated_table,     \* state["triangulated_table"]
    node,                   \* position of each extraction node of the graph
    pc,                     \* position of run_workflow: "init", "running", "returned"
    route,                  \* last value of the conditional edge after wait_for_completion
    gateEvals,              \* executions of wait_for_completion in this run
    returned,               \* the state run_workflow handed back to its caller
    bpc,                    \* position inside _triangulate_with_validation
    llmCalls,               \* oracle calls made by the build, per layer
    first_attempt,          \* layer-0 (triangulated_result, triangulated_table)
    validation,             \* validation_result of layer 1
    processing_logs,        \* processing_logs of _triangulate_with_validation
    datasets,               \* datasets of triangulate_results: the input of the layer-0 request
    retry,                  \* the layer-2 request (_build_retry_prompt) and what the oracle did with it
    text,                   \* argument of _parse_triangulation_result
    table,                  \* value returned by _parse_triangulation_result
    table_data,             \* rows accepted from the text, before the safety net
    ppc,                    \* position of the parser run: "input", "parsed"
    checkpoint,             \* logs channel the checkpointer holds for thread "default"
    runs,                   \* number of run_workflow calls made on the workflow singleton
    job,                    \* the Redis hash job:<job_id> of each job, field by field
    jpc,                    \* position of process_analysis_job for each job
    run_phase,              \* current_step of the state run_workflow returned to each job
    results_ttl,            \* time-to-live of the key job:<job_id>:results
    reader,                 \* one GET /jobs/<job_id>/results request per job
    stream,                 \* position of the generator stream_workflow returned
    chunk,                  \* the chunk the generator yielded last
    task,                   \* arguments of one process_source call: source, rows and columns of its CSV
    tpc,                    \* position of that process_source call
    data_chunks,            \* data_chunks: the row ranges process_csv_data cut the CSV into
    all_chunk_results,      \* all_chunk_results: the oracle's answer to each chunk request so far
    oracle_log,             \* the self.llm.invoke calls of the task, in the order they were made
    task_result             \* the dict process_source returned

wfVars    == <<uploaded_files, status, result, error, current_step,
               progress_percentage, logs, triangulated_result,
               triangulated_table, node, pc, route, gateEvals, returned>>
buildVars == <<bpc, llmCalls, first_attempt, validation, processing_logs, datasets, retry>>
parseVars == <<text, table, table_data, ppc>>
threadVars == <<checkpoint, runs>>
jobVars   == <<job, jpc, run_phase, results_ttl, reader>>
streamVars == <<stream, chunk>>
taskVars  == <<task, tpc, data_chunks, all_chunk_results, oracle_log, task_result>>
vars      == <<wfVars, buildVars, parseVars, threadVars, jobVars, streamVars, taskVars>>

-----------------------------------------------------------------------------
(* Sources, keys and inputs *)

\* The four sources that own status/result/error fields and a graph node.
Sources == {"search_keywords", "whatsapp_specs", "rejection_comments", "lms_chats"}

\* Iteration order of the dicts built by get_agents_status / get_errors.
SourceOrder == <<"search_keywords", "whatsapp_specs", "rejection_comments", "lms_chats">>

\* A key the data fetcher produces that has no extraction node and no status field.
UnknownKey == "custom_spec"

Keys == Sources \cup {UnknownKey}

\* Minimum number of data rows for a source to be processed.
MinRows == 10

\* Row counts of an uploaded CSV that the model draws: below and at the minimum.
RowCounts == {MinRows - 1, MinRows}

\* Rows per chunk: chunk_sizes["lms_chats"], and the size of the other sources.
LmsChunkRows == 3000
DefaultChunkRows == 8500

ChunkRows(s) == IF s = "lms_chats" THEN LmsChunkRows ELSE DefaultChunkRows

\* Row counts drawn for one key: lms_chats also gets a CSV one row above its chunk
\* size (two chunks and a merge); the content of a key without a node is never read.
RowCountsOf(k) ==
    IF k = "lms_chats" THEN RowCounts \cup {LmsChunkRows + 1}
    ELSE IF k \in Sources THEN RowCounts ELSE {MinRows}

\* Error texts str(e) of a failing oracle call.
OracleErrors == {"timeout"}

\* Error texts an extraction task captures: str(e) of an exception raised without
\* a message is the empty string.
ExtractionErrors == OracleErrors \cup {""}

-----------------------------------------------------------------------------
(* Text of an oracle answer.                                               *)
(* A text is a sequence of lines.  A line is what str.split('|') sees:     *)
(*   lead, trail  whether the stripped line starts / ends with '|'         *)
(*   cells        the raw fields between the delimiters                    *)
(*   hdr          the line contains 'Score', 'PNS' and 'search_keywords'   *)
(*   marker       the line contains "PNS has no specifications"            *)

\* str.strip() on the cell strings of the model.
Strip(s) ==
    CASE s = " Color "  -> "Color"
      [] s = " 3 "      -> "3"
      [] s = " Yes "    -> "Yes"
      [] s = " --- "    -> "---"
      [] s = " "        -> ""
      [] OTHER          -> s

\* str.lower() on the (stripped) cell strings of the model.
Lower(s) ==
    CASE s = "Color"    -> "color"
      [] s = "COLOR"    -> "color"
      [] s = "Size"     -> "size"
      [] s = "Type"     -> "type"
      [] s = "Brand"    -> "brand"
      [] s = "Power"    -> "power"
      [] s = "Voltage"  -> "voltage"
      [] s = "Yes"      -> "yes"
      [] s = "YES"      -> "yes"
      [] s = "No"       -> "no"
      [] s = "N/A"      -> "n/a"
      [] OTHER          -> s

\* Strings int() accepts, with their values; int() raises ValueError on the rest.
NumericStrings == {"0", "1", "2", "3", "4", "5"}

IntOf(s) ==
    CASE s = "0" -> 0 [] s = "1" -> 1 [] s = "2" -> 2
      [] s = "3" -> 3 [] s = "4" -> 4 [] s = "5" -> 5

\* Number of comma-separated options an Options cell holds.
OptionCount(s) ==
    CASE s = "opts9" -> 9 [] s = "opts10" -> 10 [] s = "opts11" -> 11
      [] OTHER -> 1

\* line.startswith('|-') (which covers '|--'): a leading '|' directly followed by '-'.
StartsWithDash(s) == s \in {"---", "-1"}

PipeCount(line) ==
    (Len(line.cells) - 1) + (IF line.lead THEN 1 ELSE 0) + (IF line.trail THEN 1 ELSE 0)

\* line.strip() is empty.
IsBlankLine(line) ==
    ~line.lead /\ ~line.trail /\ Len(line.cells) = 1 /\ Strip(line.cells[1]) = ""

\* parts = [part.strip() for part in cleaned_line.split('|')]
Parts(line) == [i \in 1..Len(line.cells) |-> Strip(line.cells[i])]

\* Minimum number of fields of a row of the presence/score table.
MinFields == 7

\* The '|' count a line needs before it is looked at as a row.
MinPipes == 6

\* The dict appended for one accepted line (lines 789-807).
RowOf(parts, rank) ==
    [Rank               |-> rank,
     Score              |-> parts[1],
     PNS                |-> parts[2],
     Options            |-> parts[3],
     search_keywords    |-> parts[4],
     whatsapp_specs     |-> parts[5],
     rejection_comments |-> parts[6],
     lms_chats          |-> parts[7],
     score_value        |-> IF parts[1] \in NumericStrings THEN IntOf(parts[1]) ELSE 0]

\* Whether the loop body appends a row for this line (the skips of lines 765-789).
AcceptsLine(line) ==
    /\ ~IsBlankLine(line)
    /\ ~line.hdr
    /\ ~(line.lead /\ StartsWithDash(line.cells[1]))
    /\ PipeCount(line) >= MinPipes
    /\ Len(Parts(line)) >= MinFields

\* Mutant of ParseLines: a row whose score int() refuses is not appended.
RECURSIVE ParseLines_SkipsNonNumeric(_, _)
ParseLines_SkipsNonNumeric(lines, acc) ==
    IF lines = <<>> THEN acc
    ELSE LET line == Head(lines) IN
         ParseLines_SkipsNonNumeric(Tail(lines),
                    IF AcceptsLine(line) /\ Parts(line)[1] \in NumericStrings
                    THEN Append(acc, RowOf(Parts(line), Len(acc) + 1))
                    ELSE acc)

\* The for loop over the lines (757-808): rows in line order, ranks 1, 2, ...
RECURSIVE ParseLines(_, _)
ParseLines(lines, acc) ==
    IF lines = <<>> THEN acc
    ELSE LET line == Head(lines) IN
         ParseLines(Tail(lines),
                    IF AcceptsLine(line)
                    THEN Append(acc, RowOf(Parts(line), Len(acc) + 1))
                    ELSE acc)

\* yes_count of one row (835-840).
YesOf(f) == IF Lower(Strip(f)) = "yes" THEN 1 ELSE 0

YesCount(item) ==
    YesOf(item.search_keywords) + YesOf(item.whatsapp_specs)
      + YesOf(item.rejection_comments) + YesOf(item.lms_chats)

\* Mutant of SpecKey: the names are compared without .lower().
SpecKey_CaseSensitive(item) == Strip(item.PNS)

\* item['PNS'].strip().lower()
SpecKey(item) == Lower(Strip(item.PNS))

\* Mutant of CorrectScore: the oracle's score is kept.
CorrectScore_Kept(item) == item

\* The score correction of one row (842-846).
CorrectScore(item) ==
    IF ToString(YesCount(item)) # item.Score
    THEN [item EXCEPT !.Score = ToString(YesCount(item))]
    ELSE item

\* Mutant of ValidateLoop: a later row replaces the earlier row of the same name.
RECURSIVE ValidateLoop_KeepLast(_, _, _)
ValidateLoop_KeepLast(items, seen_specs, validated_data) ==
    IF items = <<>> THEN validated_data
    ELSE LET item == Head(items) IN
         IF SpecKey(item) \in seen_specs
         THEN ValidateLoop_KeepLast(Tail(items), seen_specs,
                 [i \in 1..Len(validated_data) |->
                     IF SpecKey(validated_data[i]) = SpecKey(item)
                     THEN CorrectScore(item) ELSE validated_data[i]])
         ELSE ValidateLoop_KeepLast(Tail(items), seen_specs \cup {SpecKey(item)},
                                    Append(validated_data, CorrectScore(item)))

\* The safety net's single loop (818-852): duplicates dropped, scores corrected.
RECURSIVE ValidateLoop(_, _, _)
ValidateLoop(items, seen_specs, validated_data) ==
    IF items = <<>> THEN validated_data
    ELSE LET item == Head(items) IN
         IF SpecKey(item) \in seen_specs
         THEN ValidateLoop(Tail(items), seen_specs, validated_data)
         ELSE ValidateLoop(Tail(items), seen_specs \cup {SpecKey(item)},
                           Append(validated_data, CorrectScore(item)))

\* The key list.sort compares (866).
SortKey(item) == item.score_value

\* Insert into a list already in descending key order, after every element whose
\* key is >= the new one: list.sort(key=..., reverse=True) is stable.
RECURSIVE InsertDesc(_, _)
InsertDesc(sorted, item) ==
    IF sorted = <<>> THEN <<item>>
    ELSE IF SortKey(Head(sorted)) >= SortKey(item)
         THEN <<Head(sorted)>> \o InsertDesc(Tail(sorted), item)
         ELSE <<item>> \o sorted

RECURSIVE SortDesc(_, _)
SortDesc(items, acc) ==
    IF items = <<>> THEN acc
    ELSE SortDesc(Tail(items), InsertDesc(acc, Head(items)))

\* Number of specifications the safety net keeps.
TopK == 5

\* Mutant of Truncate: the table is not cut.
Truncate_Never(items) == items

\* table_data[:5] when longer (869-871).
Truncate(items) == IF Len(items) > TopK THEN SubSeq(items, 1, TopK) ELSE items

\* Mutant of Rerank: the sort field is removed, the ranks of the parse are kept.
Rerank_Kept(items) ==
    [i \in 1..Len(items) |->
        [f \in (DOMAIN items[i]) \ {"score_value"} |-> items[i][f]]]

\* New ranks, temporary sort field removed (878-881).
Rerank(items) ==
    [i \in 1..Len(items) |->
        [f \in (DOMAIN items[i]) \ {"score_value"} |->
            IF f = "Rank" THEN i ELSE items[i][f]]]

\* The safety net (813-884), applied only to a non-empty table_data.
SafetyNet(items) ==
    IF items = <<>> THEN items
    ELSE Rerank(Truncate(SortDesc(ValidateLoop(items, {}, <<>>), <<>>)))

\* The record returned when the text says that PNS has no specifications (746-755).
NoSpecsSentinel ==
    [Rank |-> 1, Score |-> "N/A", PNS |-> "No PNS Specifications", Options |-> "N/A",
     search_keywords |-> "N/A", whatsapp_specs |-> "N/A",
     rejection_comments |-> "N/A", lms_chats |-> "N/A"]

\* The record returned when parsing raised (891-900).
ParseErrorSentinel ==
    [Rank |-> 1, Score |-> "Error", PNS |-> "Parse Error", Options |-> "N/A",
     search_keywords |-> "N/A", whatsapp_specs |-> "N/A",
     rejection_comments |-> "N/A", lms_chats |-> "N/A"]

\* response.content that is not a str but a list of content blocks: the one value
\* of the model whose pseudo-line has no cell at all (str.split returns at least one).
ContentBlocks ==
    << [lead |-> FALSE, trail |-> FALSE, hdr |-> FALSE, marker |-> FALSE, cells |-> <<>>] >>

\* isinstance(result, str): result.strip() of line 736 raises AttributeError otherwise.
IsStr(txt) == txt # ContentBlocks

\* "PNS has no specifications" in result
HasMarker(txt) == IsStr(txt) /\ \E i \in 1..Len(txt) : txt[i].marker

\* table_data when the function returns: the accepted rows, or nothing when the
\* marker check returned before the loop.
ParsedRows(txt) == IF ~IsStr(txt) \/ HasMarker(txt) THEN <<>> ELSE ParseLines(txt, <<>>)

\* _parse_triangulation_result(result)
\* Mutant of ParseTriangulationResult: no try/except around the body, a text that
\* cannot be split gives no table.
ParseTriangulationResult_NoExcept(txt) ==
    IF ~IsStr(txt) THEN <<>>
    ELSE IF HasMarker(txt) THEN <<NoSpecsSentinel>>
    ELSE SafetyNet(ParseLines(txt, <<>>))

ParseTriangulationResult(txt) ==
    IF ~IsStr(txt) THEN <<ParseErrorSentinel>>
    ELSE IF HasMarker(txt) THEN <<NoSpecsSentinel>>
    ELSE SafetyNet(ParseLines(txt, <<>>))


-----------------------------------------------------------------------------
(* Oracle texts the parser is run on *)

Row(score, name, opts, sk, ws, rc, lc) ==
    [lead |-> TRUE, trail |-> TRUE, hdr |-> FALSE, marker |-> FALSE,
     cells |-> <<score, name, opts, sk, ws, rc, lc>>]

\* A sentence of the answer that holds the phrase "PNS has no specifications".
MarkerLine ==
    [lead |-> FALSE, trail |-> FALSE, hdr |-> FALSE, marker |-> TRUE,
     cells |-> <<"PNS has no specifications">>]

\* Lines an oracle answer is made of: rows with a right score, a wrong score, a
\* non-numeric score, a repeated name in another case, 9 / 10 / 11 options.
RowLines ==
    { Row("4",   " Color ", "opts10", "Yes",   "Yes", "Yes", "Yes"),
      Row("1",   "COLOR",   "opts10", "Yes",   "No",  "No",  "No"),
      Row(" 3 ", "Size",    "opts11", " Yes ", "YES", "No",  "No"),
      Row("N/A", "Type",    "opts9",  "yes",   "No",  "No",  "No"),
      Row("0",   "Brand",   "opts10", "No",    "No",  "No",  "No"),
      Row("2",   "Power",   "opts10", "Yes",   "Yes", "No",  "N/A"),
      Row("4",   "Voltage", "opts10", "No",    "No",  "No",  "Yes") }

\* A sentence of the answer that is no table row: it holds no '|'.
ProseLine ==
    [lead |-> FALSE, trail |-> FALSE, hdr |-> FALSE, marker |-> FALSE,
     cells |-> <<"Here is the validated table">>]

LineSet == RowLines \cup {MarkerLine, ProseLine}

\* Longest oracle text, in lines.
MaxLines == 6

Range(f) == {f[i] : i \in DOMAIN f}

-----------------------------------------------------------------------------
(* Values of the variables a specification does not use *)

NoFiles == [k \in {} |-> 0]

EmptyResult == [status |-> "none", extracted_specs |-> "", error |-> "",
                exclusion_reason |-> "", chunks_processed |-> 0, oracle_calls |-> 0]

NoValidation == [is_valid |-> FALSE, issues |-> <<>>]

NoAttempt == [result |-> <<>>, table |-> <<>>]

NoCalls == [layer0 |-> 0, layer1 |-> 0, layer2 |-> 0]

NoRetry == [first_attempt |-> <<>>, validation_issues |-> <<>>, outcome |-> "none",
            result |-> <<>>, error |-> ""]

NotReturned == [current_step |-> "none", progress_percentage |-> 0, logs |-> <<>>,
                triangulated_result |-> <<>>, triangulated_table |-> <<>>]

WorkflowUnused ==
    /\ uploaded_files = NoFiles
    /\ status = [s \in Sources |-> "not_uploaded"]
    /\ result = [s \in Sources |-> EmptyResult]
    /\ error = [s \in Sources |-> ""]
    /\ current_step = "initialization"
    /\ progress_percentage = 0
    /\ logs = <<>>
    /\ triangulated_result = <<>>
    /\ triangulated_table = <<>>
    /\ node = [s \in Sources |-> "pending"]
    /\ pc = "unused"
    /\ route = "none"
    /\ gateEvals = 0
    /\ returned = NotReturned
    /\ checkpoint = <<>>
    /\ runs = 1

BuildUnused ==
    /\ bpc = "idle"
    /\ llmCalls = NoCalls
    /\ first_attempt = NoAttempt
    /\ validation = NoValidation
    /\ processing_logs = <<>>
    /\ datasets = {}
    /\ retry = NoRetry

ParseUnused ==
    /\ text = <<>>
    /\ table = <<>>
    /\ table_data = <<>>
    /\ ppc = "unused"

\* The jobs of the model: job ids are uuid4 values, one per request.
Jobs == {"job1", "job2"}

\* A hash that does not exist in Redis.
NoJob == [status |-> "none", progress |-> 0, current_step |-> "", error |-> "",
          results |-> FALSE]

\* A request that has not been made.
NoRequest == [seen |-> "nothing", response |-> "none"]

JobUnused ==
    /\ job = [j \in Jobs |-> NoJob]
    /\ jpc = [j \in Jobs |-> "unused"]
    /\ run_phase = [j \in Jobs |-> "none"]
    /\ results_ttl = [j \in Jobs |-> "none"]
    /\ reader = [j \in Jobs |-> NoRequest]

NoChunk == [node |-> "none", update |-> <<>>]

StreamUnused ==
    /\ stream = "off"
    /\ chunk = NoChunk

\* No process_source call is followed.
NoTask == [source |-> "none", rows |-> 0, data_column |-> FALSE, frequency_column |-> FALSE]

TaskUnused ==
    /\ task = NoTask
    /\ tpc = "unused"
    /\ data_chunks = <<>>
    /\ all_chunk_results = <<>>
    /\ oracle_log = <<>>
    /\ task_result = EmptyResult

-----------------------------------------------------------------------------
(* SpecParse: _parse_triangulation_result on every text of at most MaxLines     *)
(* distinct lines of LineSet.                                                  *)

ParseInit ==
    /\ WorkflowUnused
    /\ BuildUnused
    /\ JobUnused
    /\ StreamUnused
    /\ TaskUnused
    /\ text = <<>>
    /\ table = <<>>
    /\ table_data = <<>>
    /\ ppc = "input"

\* The oracle writes one more line of its answer.
OracleWritesLine ==
    /\ ppc = "input"
    /\ IsStr(text)
    /\ Len(text) < MaxLines
    /\ \E line \in LineSet \ Range(text) : text' = Append(text, line)
    /\ UNCHANGED <<table, table_data, ppc, wfVars, buildVars, threadVars, jobVars, streamVars,
                   taskVars>>

\* The oracle client hands back a content that is a list of blocks, not a str.
OracleReturnsBlocks ==
    /\ ppc = "input"
    /\ text = <<>>
    /\ text' = ContentBlocks
    /\ UNCHANGED <<table, table_data, ppc, wfVars, buildVars, threadVars, jobVars, streamVars,
                   taskVars>>

\* table = self._parse_triangulation_result(text)
ParseText ==
    /\ ppc = "input"
    /\ table' = ParseTriangulationResult(text)
    /\ table_data' = ParsedRows(text)
    /\ ppc' = "parsed"
    /\ UNCHANGED <<text, wfVars, buildVars, threadVars, jobVars, streamVars, taskVars>>

ParseNext == OracleWritesLine \/ OracleReturnsBlocks \/ ParseText

SpecParse == ParseInit /\ [][ParseNext]_vars


-----------------------------------------------------------------------------
(* The workflow state and the extraction nodes *)

\* create_initial_state(product_name, files)
CreateInitialState(files) ==
    /\ uploaded_files = files
    /\ status = [s \in Sources |-> IF s \in DOMAIN files THEN "idle" ELSE "not_uploaded"]
    /\ result = [s \in Sources |-> EmptyResult]
    /\ error = [s \in Sources |-> ""]
    /\ current_step = "initialization"
    /\ progress_percentage = 0
    /\ logs = <<"Initialized single-stage workflow">>
    /\ triangulated_result = <<>>
    /\ triangulated_table = <<>>

\* Mutant of BelowMinimum: a CSV of exactly the minimum is excluded too.
BelowMinimum_Inclusive(rows) == rows <= MinRows

\* len(df) < 10: process_csv_data returns no chunk.
BelowMinimum(rows) == rows < MinRows

\* len(chunks) of DataProcessor.process_csv_data for a CSV of at least MinRows rows.
ChunkCount(s, rows) ==
    IF rows > ChunkRows(s) THEN (rows + ChunkRows(s) - 1) \div ChunkRows(s) ELSE 1

\* Oracle calls of a task that goes through: one per chunk, and the merge call.
OracleCallsNeeded(n) == n + (IF n > 1 THEN 1 ELSE 0)

\* Outcomes of ExtractionAgent.process_source on a CSV of `rows` data rows:
\* excluded below the minimum (no oracle call), otherwise completed, or failed
\* with the text of the exception an oracle call raised.
\* The field oracle_calls counts the self.llm.invoke calls the task made: one per
\* chunk in order, then the merge call when there is more than one chunk; a call
\* that raises ends the task.
ProcessSourceResults(s, rows) ==
    IF BelowMinimum(rows)
    THEN { [status |-> "excluded", extracted_specs |-> "", error |-> "",
            exclusion_reason |-> "Insufficient rows: Dataset contains less than 10 rows required for processing",
            chunks_processed |-> 0, oracle_calls |-> 0] }
    ELSE LET n == ChunkCount(s, rows) IN
         { [status |-> "completed", extracted_specs |-> "specs of " \o s, error |-> "",
            exclusion_reason |-> "", chunks_processed |-> n,
            oracle_calls |-> OracleCallsNeeded(n)] }
         \cup
         { [status |-> "failed", extracted_specs |-> "", error |-> e,
            exclusion_reason |-> "", chunks_processed |-> 0, oracle_calls |-> k] :
                e \in ExtractionErrors, k \in 1..OracleCallsNeeded(n) }

\* _get_status_message(result)
GetStatusMessage(res) ==
    CASE res.status = "completed" -> "Completed successfully"
      [] res.status = "excluded"  -> "Excluded - " \o res.exclusion_reason
      [] res.status = "failed"    -> "Failed"
      [] OTHER                    -> "Unknown status: " \o res.status

\* get_agents_status(state).get(source): None for a key that has no status field.
AgentStatus(k) == IF k \in Sources THEN status[k] ELSE "none"

\* Mutant of ProcessSource: process_source has no except branch, the exception of
\* a failing oracle call leaves the node and ends graph.invoke.
ProcessSource_Raises(s) ==
    /\ pc = "running"
    /\ node[s] = "pending"
    /\ node' = [node EXCEPT ![s] = "done"]
    /\ IF s \notin DOMAIN uploaded_files
       THEN UNCHANGED <<status, result, error, logs, pc, returned>>
       ELSE \E res \in ProcessSourceResults(s, uploaded_files[s]) :
               IF res.status = "failed"
               THEN /\ pc' = "returned"
                    /\ returned' = [NotReturned EXCEPT !.current_step = "workflow_failed"]
                    /\ UNCHANGED <<status, result, error, logs>>
               ELSE /\ status' = [status EXCEPT ![s] = res.status]
                    /\ result' = [result EXCEPT ![s] = res]
                    /\ error' = [error EXCEPT ![s] = res.error]
                    /\ logs' = Append(logs, "Agent " \o s \o ": " \o GetStatusMessage(res))
                    /\ UNCHANGED <<pc, returned>>
    /\ UNCHANGED <<uploaded_files, current_step, progress_percentage,
                   triangulated_result, triangulated_table, route, gateEvals,
                   buildVars, parseVars, threadVars, jobVars, streamVars, taskVars>>

\* Mutant of ProcessSource: logs has no reducer, the node's update replaces the
\* log by the log the node read at the start of the step plus its own entry.
ProcessSource_NoReducer(s) ==
    /\ pc = "running"
    /\ node[s] = "pending"
    /\ node' = [node EXCEPT ![s] = "done"]
    /\ IF s \notin DOMAIN uploaded_files
       THEN UNCHANGED <<status, result, error, logs>>
       ELSE \E res \in ProcessSourceResults(s, uploaded_files[s]) :
               /\ status' = [status EXCEPT ![s] = res.status]
               /\ result' = [result EXCEPT ![s] = res]
               /\ error' = [error EXCEPT ![s] = res.error]
               /\ logs' = Append(SubSeq(logs, 1, Len(checkpoint) + 2),
                                 "Agent " \o s \o ": " \o GetStatusMessage(res))
    /\ UNCHANGED <<uploaded_files, current_step, progress_percentage,
                   triangulated_result, triangulated_table, pc, route, gateEvals,
                   returned, buildVars, parseVars, threadVars, jobVars, streamVars, taskVars>>

\* Mutant of ProcessSource: the node of a source that failed is run again.
ProcessSource_Reruns(s) ==
    /\ pc = "running"
    /\ node[s] = "pending" \/ (node[s] = "done" /\ status[s] = "failed" /\ route = "none")
    /\ node' = [node EXCEPT ![s] = "done"]
    /\ IF s \notin DOMAIN uploaded_files
       THEN UNCHANGED <<status, result, error, logs>>
       ELSE \E res \in ProcessSourceResults(s, uploaded_files[s]) :
               /\ status' = [status EXCEPT ![s] = res.status]
               /\ result' = [result EXCEPT ![s] = res]
               /\ error' = [error EXCEPT ![s] = res.error]
               /\ logs' = Append(logs, "Agent " \o s \o ": " \o GetStatusMessage(res))
    /\ UNCHANGED <<uploaded_files, current_step, progress_percentage,
                   triangulated_result, triangulated_table, pc, route, gateEvals,
                   returned, buildVars, parseVars, threadVars, jobVars, streamVars,
                   taskVars>>

\* Node process_<source>: an empty update when the source has no uploaded file,
\* otherwise the source's own status, result and error fields and one log entry.
ProcessSource(s) ==
    /\ pc = "running"
    /\ node[s] = "pending"
    /\ node' = [node EXCEPT ![s] = "done"]
    /\ IF s \notin DOMAIN uploaded_files
       THEN UNCHANGED <<status, result, error, logs>>
       ELSE \E res \in ProcessSourceResults(s, uploaded_files[s]) :
               /\ status' = [status EXCEPT ![s] = res.status]
               /\ result' = [result EXCEPT ![s] = res]
               /\ error' = [error EXCEPT ![s] = res.error]
               /\ logs' = Append(logs, "Agent " \o s \o ": " \o GetStatusMessage(res))
    /\ UNCHANGED <<uploaded_files, current_step, progress_percentage,
                   triangulated_result, triangulated_table, pc, route, gateEvals,
                   returned, buildVars, parseVars, threadVars, jobVars, streamVars, taskVars>>

-----------------------------------------------------------------------------
(* The completion gate *)

\* Mutant of CheckAllAgentsCompleted: the gate proceeds as soon as one source is
\* completed, without waiting for the others.
CheckAllAgentsCompleted_NoBarrier ==
    IF \E s \in Sources : status[s] = "completed" THEN "triangulate"
    ELSE IF \A k \in DOMAIN uploaded_files : AgentStatus(k) \in {"failed", "excluded"}
         THEN "all_failed" ELSE "wait"

\* check_all_agents_completed(state)
CheckAllAgentsCompleted ==
    LET available_sources == DOMAIN uploaded_files
        completed_sources == {s \in Sources : status[s] = "completed"}
        failed_sources    == {s \in Sources : status[s] = "failed"}
        excluded_sources  == {s \in Sources : status[s] = "excluded"}
    IN  IF available_sources \subseteq
              (completed_sources \cup failed_sources \cup excluded_sources)
        THEN IF completed_sources # {} THEN "triangulate" ELSE "all_failed"
        ELSE "wait"

CountWithStatus(st) == Cardinality({k \in DOMAIN uploaded_files : AgentStatus(k) = st})

\* Mutant of total_count: the gate counts every source the graph has a node for.
total_count_AllSources == Cardinality(Sources)

completed_count == CountWithStatus("completed")
failed_count    == CountWithStatus("failed")
excluded_count  == CountWithStatus("excluded")
total_count == Cardinality(DOMAIN uploaded_files)
processed_count == completed_count + failed_count + excluded_count

\* Share of the progress bar the extraction phase fills.
ExtractionShare == 90

\* Mutant of GateProgress: the progress is rounded to the nearest integer.
GateProgress_Rounded == (2 * processed_count * ExtractionShare + total_count) \div (2 * total_count)

\* int(processed_count / total_count * 90); the float product truncates to the
\* integer quotient for every total up to the five keys of the model.
GateProgress == (processed_count * ExtractionShare) \div total_count

RECURSIVE JoinComma(_)
JoinComma(parts) ==
    IF parts = <<>> THEN ""
    ELSE IF Len(parts) = 1 THEN parts[1]
    ELSE parts[1] \o ", " \o JoinComma(Tail(parts))

StatusParts ==
    (IF completed_count > 0 THEN <<ToString(completed_count) \o " successful">> ELSE <<>>)
    \o (IF failed_count > 0 THEN <<ToString(failed_count) \o " failed">> ELSE <<>>)
    \o (IF excluded_count > 0 THEN <<ToString(excluded_count) \o " excluded">> ELSE <<>>)

GateStep ==
    IF processed_count = total_count
    THEN IF completed_count > 0 THEN "ready_for_triangulation" ELSE "all_agents_failed"
    ELSE "processing (" \o ToString(processed_count) \o "/" \o ToString(total_count)
            \o " completed)"

GateLog ==
    IF processed_count = total_count
    THEN IF completed_count > 0
         THEN "All agents completed: " \o JoinComma(StatusParts)
         ELSE "All agents failed or were excluded - no results to triangulate"
    ELSE "Progress: " \o ToString(processed_count) \o "/" \o ToString(total_count)
            \o " agents completed"

\* Largest number of executions of wait_for_completion the graph executor allows
\* in one run before it raises its step-limit error.
MaxGateEvals == 3

\* What run_workflow hands back from its except branch: the caller's dict as it
\* was set before graph.invoke, with current_step and one more log entry.
FailedReturn(msg) ==
    [current_step |-> "workflow_failed", progress_percentage |-> 5,
     logs |-> SubSeq(logs, Len(checkpoint) + 1, Len(checkpoint) + 2)
                 \o <<"Workflow execution failed: " \o msg>>,
     triangulated_result |-> <<>>, triangulated_table |-> <<>>]

\* Node wait_for_completion followed by its conditional edge.  The node runs once
\* all four extraction nodes have returned, and again after every 'wait'.
WaitForCompletion ==
    /\ pc = "running"
    /\ \A s \in Sources : node[s] = "done"
    /\ route \in {"none", "wait"}
    /\ gateEvals < MaxGateEvals
    /\ total_count > 0
    /\ progress_percentage' = GateProgress
    /\ current_step' = GateStep
    /\ logs' = Append(logs, GateLog)
    /\ route' = CheckAllAgentsCompleted
    /\ gateEvals' = gateEvals + 1
    /\ UNCHANGED <<uploaded_files, status, result, error, triangulated_result,
                   triangulated_table, node, pc, returned, buildVars, parseVars, threadVars, jobVars, streamVars,
                   taskVars>>

\* Mutant of WaitForCompletionRaises: run_workflow has no except branch, the
\* ZeroDivisionError reaches the caller and no state is returned.
WaitForCompletionRaises_Escapes ==
    /\ pc = "running"
    /\ \A s \in Sources : node[s] = "done"
    /\ route = "none"
    /\ total_count = 0
    /\ pc' = "raised"
    /\ UNCHANGED <<uploaded_files, status, result, error, current_step,
                   progress_percentage, logs, triangulated_result, triangulated_table,
                   node, route, gateEvals, returned, buildVars, parseVars, threadVars, jobVars, streamVars,
                   taskVars>>

\* wait_for_completion divides by total_count: with no uploaded file the node
\* raises ZeroDivisionError, graph.invoke raises, run_workflow's except branch returns.
WaitForCompletionRaises ==
    /\ pc = "running"
    /\ \A s \in Sources : node[s] = "done"
    /\ route = "none"
    /\ total_count = 0
    /\ pc' = "returned"
    /\ returned' = FailedReturn("division by zero")
    /\ UNCHANGED <<uploaded_files, status, result, error, current_step,
                   progress_percentage, logs, triangulated_result, triangulated_table,
                   node, route, gateEvals, buildVars, parseVars, threadVars, jobVars, streamVars,
                   taskVars>>

\* The edge 'wait' -> wait_for_completion taken until the executor's step limit:
\* graph.invoke raises, run_workflow's except branch returns.
StepLimitReached ==
    /\ pc = "running"
    /\ route = "wait"
    /\ gateEvals = MaxGateEvals
    /\ pc' = "returned"
    /\ returned' = FailedReturn("recursion limit reached")
    /\ UNCHANGED <<uploaded_files, status, result, error, current_step,
                   progress_percentage, logs, triangulated_result, triangulated_table,
                   node, route, gateEvals, buildVars, parseVars, threadVars, jobVars, streamVars,
                   taskVars>>

\* The state graph.invoke returns after an end node.
GraphReturn(step, progress, newlogs, tresult, ttable) ==
    [current_step |-> step, progress_percentage |-> progress, logs |-> newlogs,
     triangulated_result |-> tresult, triangulated_table |-> ttable]

\* error_summary of _handle_all_failed: "<source>: <error>" for every non-empty error.
RECURSIVE ErrorSummary(_)
ErrorSummary(order) ==
    IF order = <<>> THEN <<>>
    ELSE (IF error[Head(order)] # ""
          THEN <<Head(order) \o ": " \o error[Head(order)]>> ELSE <<>>)
         \o ErrorSummary(Tail(order))

\* Progress _handle_all_failed writes.
FailedProgress == 0

\* Mutant of HandleAllFailed: the node's edge leads back to wait_for_completion
\* instead of END.
HandleAllFailed_NoEnd ==
    /\ pc = "running"
    /\ route = "all_failed"
    /\ current_step' = "all_failed"
    /\ progress_percentage' = FailedProgress
    /\ logs' = Append(logs, "Workflow failed: All extraction agents failed")
    /\ triangulated_result' = <<"Processing failed for all sources:">> \o ErrorSummary(SourceOrder)
    /\ route' = "wait"
    /\ UNCHANGED <<uploaded_files, status, result, error, triangulated_table, node,
                   pc, returned, gateEvals, buildVars, parseVars, threadVars, jobVars, streamVars,
                   taskVars>>

\* Node handle_all_failed, then END: run_workflow returns the graph's state.
HandleAllFailed ==
    /\ pc = "running"
    /\ route = "all_failed"
    /\ current_step' = "all_failed"
    /\ progress_percentage' = FailedProgress
    /\ logs' = Append(logs, "Workflow failed: All extraction agents failed")
    /\ triangulated_result' = <<"Processing failed for all sources:">> \o ErrorSummary(SourceOrder)
    /\ route' = "end"
    /\ pc' = "returned"
    /\ returned' = GraphReturn(current_step', progress_percentage', logs',
                               triangulated_result', triangulated_table)
    /\ UNCHANGED <<uploaded_files, status, result, error, triangulated_table, node,
                   gateEvals, buildVars, parseVars, threadVars, jobVars, streamVars, taskVars>>

-----------------------------------------------------------------------------
(* The consensus builder: triangulate_results and _triangulate_with_validation *)

SixRows ==
    << Row("4",   " Color ", "opts10", "Yes",   "Yes", "Yes", "Yes"),
       Row("1",   "COLOR",   "opts10", "Yes",   "No",  "No",  "No"),
       Row(" 3 ", "Size",    "opts11", " Yes ", "YES", "No",  "No"),
       Row("N/A", "Type",    "opts9",  "yes",   "No",  "No",  "No"),
       Row("0",   "Brand",   "opts10", "No",    "No",  "No",  "No"),
       Row("2",   "Power",   "opts10", "Yes",   "Yes", "No",  "N/A") >>

\* Answers of the oracle to a layer-0 or layer-2 request: a table, a text that
\* says that PNS has no specifications, a text without any row, a content that is
\* no text.
ResponseTexts == { SixRows, <<MarkerLine>>, <<ProseLine>>, ContentBlocks }

\* Answers of the oracle to the layer-1 request: whether the text holds
\* "VALIDATION_RESULT: PASS", and the issue lines listed after "ISSUES_FOUND:".
ValidationResponses ==
    { [pass |-> TRUE,  listed |-> <<>>],
      [pass |-> TRUE,  listed |-> <<"Wrong option count">>],
      [pass |-> FALSE, listed |-> <<"Duplicate specification name", "Wrong option count">>],
      [pass |-> FALSE, listed |-> <<>>] }

\* _parse_validation_response(validation_response)
ParseValidationResponse(resp) ==
    [is_valid |-> resp.pass,
     issues   |-> IF ~resp.pass /\ resp.listed = <<>>
                  THEN <<"Validation failed but no specific issues identified">>
                  ELSE resp.listed]

\* Mutant of ValidationError: the except branch reports the result as valid.
ValidationError_Passes(e) ==
    [is_valid |-> TRUE, issues |-> <<"Validation system error: " \o e>>]

\* The except branch of _validate_triangulation_result.
ValidationError(e) ==
    [is_valid |-> FALSE, issues |-> <<"Validation system error: " \o e>>]

\* Mutant of CompletedAgents: every source that has a result is taken.
CompletedAgents_AnyResult ==
    {s \in Sources : result[s].status \in {"completed", "failed", "excluded"}}

\* completed_agents of triangulate_results
CompletedAgents == {s \in Sources : result[s].status = "completed"}

\* datasets / all_dataset_outputs (101-114): one entry per completed agent.
Datasets ==
    { [source |-> s, extracted_specs |-> result[s].extracted_specs] : s \in CompletedAgents }

\* The update triangulate_results returns after a build, then END.
TriangulateDone(tresult, ttable, plogs) ==
    /\ triangulated_result' = tresult
    /\ triangulated_table' = ttable
    /\ current_step' = "completed"
    /\ progress_percentage' = 100
    /\ logs' = logs \o plogs \o <<"Triangulation completed successfully">>
    /\ processing_logs' = plogs
    /\ bpc' = "returned"
    /\ route' = "end"
    /\ pc' = "returned"
    /\ returned' = GraphReturn("completed", 100, logs', tresult, ttable)

\* The update of the except branch of triangulate_results, then END.
TriangulateFailed(msg) ==
    /\ current_step' = "triangulation_failed"
    /\ logs' = Append(logs, "PNS validation failed: " \o msg)
    /\ bpc' = "raised"
    /\ route' = "end"
    /\ pc' = "returned"
    /\ returned' = GraphReturn("triangulation_failed", progress_percentage, logs',
                               triangulated_result, triangulated_table)
    /\ UNCHANGED <<triangulated_result, triangulated_table, progress_percentage,
                   processing_logs>>

\* Node triangulate_results up to the answer of the layer-0 oracle call.
Layer0 ==
    /\ pc = "running"
    /\ route = "triangulate"
    /\ bpc = "idle"
    /\ IF CompletedAgents = {}
       THEN /\ TriangulateFailed("No completed CSV agent results for triangulation")
            /\ UNCHANGED <<llmCalls, first_attempt, datasets>>
       ELSE /\ llmCalls' = [llmCalls EXCEPT !.layer0 = @ + 1]
            /\ datasets' = Datasets
            /\ \/ \E e \in OracleErrors :
                     /\ TriangulateFailed(e)
                     /\ UNCHANGED first_attempt
               \/ \E txt \in ResponseTexts :
                     /\ first_attempt' = [result |-> txt, table |-> ParseTriangulationResult(txt)]
                     /\ processing_logs' = <<"Starting main PNS triangulation",
                                             "Layer 1: Validating triangulation results">>
                     /\ bpc' = "layer1"
                     /\ UNCHANGED <<current_step, progress_percentage, logs,
                                    triangulated_result, triangulated_table, route, pc,
                                    returned>>
    /\ UNCHANGED <<uploaded_files, status, result, error, node, gateEvals, validation,
                   retry, parseVars, threadVars, jobVars, streamVars, taskVars>>

\* Mutant of Layer1: the correction is started whatever the validation says.
Layer1_AlwaysCorrects ==
    /\ pc = "running"
    /\ bpc = "layer1"
    /\ llmCalls' = [llmCalls EXCEPT !.layer1 = @ + 1]
    /\ \E v \in {ValidationError(e) : e \in OracleErrors}
                \cup {ParseValidationResponse(r) : r \in ValidationResponses} :
          /\ validation' = v
          /\ retry' = [NoRetry EXCEPT !.first_attempt = first_attempt.result,
                                      !.validation_issues = v.issues]
          /\ processing_logs' =
                Append(processing_logs,
                       "Layer 1: Found " \o ToString(Len(v.issues))
                          \o " issues. Starting Layer 2 correction")
          /\ bpc' = "layer2"
          /\ UNCHANGED <<current_step, progress_percentage, logs,
                         triangulated_result, triangulated_table, route, pc,
                         returned>>
    /\ UNCHANGED <<uploaded_files, status, result, error, node, gateEvals,
                   first_attempt, datasets, parseVars, threadVars, jobVars, streamVars,
                   taskVars>>

\* The layer-1 oracle call and what follows it up to the next call or the return.
Layer1 ==
    /\ pc = "running"
    /\ bpc = "layer1"
    /\ llmCalls' = [llmCalls EXCEPT !.layer1 = @ + 1]
    /\ \E v \in {ValidationError(e) : e \in OracleErrors}
                \cup {ParseValidationResponse(r) : r \in ValidationResponses} :
          /\ validation' = v
          /\ IF v.is_valid
             THEN /\ TriangulateDone(first_attempt.result, first_attempt.table,
                        Append(processing_logs, "Layer 1: Validation passed - no issues found"))
                  /\ UNCHANGED retry
             ELSE /\ retry' = [NoRetry EXCEPT !.first_attempt = first_attempt.result,
                                              !.validation_issues = v.issues]
                  /\ processing_logs' =
                        Append(processing_logs,
                               "Layer 1: Found " \o ToString(Len(v.issues))
                                  \o " issues. Starting Layer 2 correction")
                  /\ bpc' = "layer2"
                  /\ UNCHANGED <<current_step, progress_percentage, logs,
                                 triangulated_result, triangulated_table, route, pc,
                                 returned>>
    /\ UNCHANGED <<uploaded_files, status, result, error, node, gateEvals,
                   first_attempt, datasets, parseVars, threadVars, jobVars, streamVars,
                   taskVars>>

\* Mutant of Layer2: a failed correction call is made again.
Layer2_Retry ==
    /\ pc = "running"
    /\ bpc = "layer2"
    /\ llmCalls' = [llmCalls EXCEPT !.layer2 = @ + 1]
    /\ \/ /\ \E e \in OracleErrors :
                /\ processing_logs' = Append(processing_logs, e)
                /\ retry' = [retry EXCEPT !.outcome = "failed", !.error = e]
          /\ UNCHANGED <<current_step, progress_percentage, logs, triangulated_result,
                         triangulated_table, route, pc, returned, bpc>>
       \/ \E txt \in ResponseTexts :
             /\ retry' = [retry EXCEPT !.outcome = "returned", !.result = txt]
             /\ TriangulateDone(txt, ParseTriangulationResult(txt),
                   Append(processing_logs, "Layer 2: Correction completed - using improved result"))
    /\ UNCHANGED <<uploaded_files, status, result, error, node, gateEvals,
                   first_attempt, validation, datasets, parseVars, threadVars, jobVars, streamVars,
                   taskVars>>

\* Mutant of Layer2: no try/except around the correction call, its exception
\* reaches the except branch of triangulate_results.
Layer2_Raises ==
    /\ pc = "running"
    /\ bpc = "layer2"
    /\ llmCalls' = [llmCalls EXCEPT !.layer2 = @ + 1]
    /\ \/ \E e \in OracleErrors :
             /\ retry' = [retry EXCEPT !.outcome = "failed", !.error = e]
             /\ TriangulateFailed(e)
       \/ \E txt \in ResponseTexts :
             /\ retry' = [retry EXCEPT !.outcome = "returned", !.result = txt]
             /\ TriangulateDone(txt, ParseTriangulationResult(txt),
                   Append(processing_logs, "Layer 2: Correction completed - using improved result"))
    /\ UNCHANGED <<uploaded_files, status, result, error, node, gateEvals,
                   first_attempt, validation, datasets, parseVars, threadVars, jobVars, streamVars,
                   taskVars>>

\* The layer-2 oracle call and the return of the build.
Layer2 ==
    /\ pc = "running"
    /\ bpc = "layer2"
    /\ llmCalls' = [llmCalls EXCEPT !.layer2 = @ + 1]
    /\ \/ \E e \in OracleErrors :
             /\ retry' = [retry EXCEPT !.outcome = "failed", !.error = e]
             /\ TriangulateDone(first_attempt.result, first_attempt.table,
                   Append(processing_logs,
                          "Layer 2: Correction failed (" \o e \o ") - using original result"))
       \/ \E txt \in ResponseTexts :
             /\ retry' = [retry EXCEPT !.outcome = "returned", !.result = txt]
             /\ TriangulateDone(txt, ParseTriangulationResult(txt),
                   Append(processing_logs, "Layer 2: Correction completed - using improved result"))
    /\ UNCHANGED <<uploaded_files, status, result, error, node, gateEvals,
                   first_attempt, validation, datasets, parseVars, threadVars, jobVars, streamVars,
                   taskVars>>

-----------------------------------------------------------------------------
(* SpecRows: _parse_triangulation_result on short texts whose lines have every *)
(* shape the acceptance test of a row tells apart.                             *)

Line(lead, trail, cells) ==
    [lead |-> lead, trail |-> trail, hdr |-> FALSE, marker |-> FALSE, cells |-> cells]

\* The header of the table: it holds 'Score', 'PNS' and 'search_keywords'.
HeaderLine ==
    [lead |-> TRUE, trail |-> TRUE, hdr |-> TRUE, marker |-> FALSE,
     cells |-> <<"Score", "PNS", "Options", "search_keywords", "whatsapp_specs",
                 "rejection_comments", "lms_chats">>]

\* Lines by shape: seven fields between a leading and a trailing delimiter, with
\* a numeric and with a non-numeric score; seven fields without the outer
\* delimiters; eight fields; six and five fields between outer delimiters (seven
\* and six delimiters in the line); the two separators of a markdown table,
\* "|---|...|" and "| --- |...|"; the header; a sentence.
ShapedLines ==
    { Line(TRUE,  TRUE,  <<"2", "Power", "opts10", "Yes", "Yes", "No", "N/A">>),
      Line(TRUE,  TRUE,  <<"N/A", "Type", "opts9", "yes", "No", "No", "No">>),
      Line(FALSE, FALSE, <<"N/A", "Size", "opts11", " Yes ", "YES", "No", "No">>),
      Line(TRUE,  TRUE,  <<"1", "Brand", "opts10", "No", "No", "No", "Yes", "N/A">>),
      Line(TRUE,  TRUE,  <<"1", "Voltage", "opts10", "Yes", "No", "No">>),
      Line(TRUE,  TRUE,  <<"1", "Color", "opts10", "Yes", "No">>),
      Line(TRUE,  TRUE,  <<"---", "---", "---", "---", "---", "---", "---">>),
      Line(TRUE,  TRUE,  <<" --- ", " --- ", " --- ", " --- ", " --- ", " --- ", " --- ">>),
      HeaderLine,
      ProseLine }

\* Longest text of SpecRows, in lines.
MaxShapedLines == 2

\* The oracle writes one more line of its answer.
OracleWritesShapedLine ==
    /\ ppc = "input"
    /\ Len(text) < MaxShapedLines
    /\ \E line \in ShapedLines \ Range(text) : text' = Append(text, line)
    /\ UNCHANGED <<table, table_data, ppc, wfVars, buildVars, threadVars, jobVars,
                   streamVars, taskVars>>

RowsNext == OracleWritesShapedLine \/ ParseText

SpecRows == ParseInit /\ [][RowsNext]_vars

-----------------------------------------------------------------------------
(* Spec: one run of run_workflow *)

\* The inputs of a run: any set of keys, each with one of its row counts.
InputFiles ==
    UNION { {f \in [K -> RowCounts \cup {LmsChunkRows + 1}] : \A k \in K : f[k] \in RowCountsOf(k)} :
            K \in SUBSET Keys }

Init ==
    /\ \E files \in InputFiles : CreateInitialState(files)
    /\ node = [s \in Sources |-> "pending"]
    /\ pc = "init"
    /\ route = "none"
    /\ gateEvals = 0
    /\ returned = NotReturned
    /\ checkpoint = <<>>
    /\ runs = 1
    /\ JobUnused
    /\ StreamUnused
    /\ TaskUnused
    /\ BuildUnused
    /\ ParseUnused

\* Progress run_workflow sets before it invokes the graph.
StartProgress == 5

\* The entry run_workflow appends to the log of the state it is given.
StartLog == "Workflow started - launching extraction agents"

\* run_workflow up to graph.invoke: START fans out to the four extraction nodes.
RunWorkflowStart ==
    /\ pc = "init"
    /\ current_step' = "starting_extraction"
    /\ progress_percentage' = StartProgress
    /\ logs' = checkpoint \o Append(logs, "Workflow started - launching extraction agents")
    /\ pc' = "running"
    /\ UNCHANGED <<uploaded_files, status, result, error, triangulated_result,
                   triangulated_table, node, route, gateEvals, returned, buildVars,
                   parseVars, threadVars, jobVars, streamVars, taskVars>>

Next ==
    \/ RunWorkflowStart
    \/ \E s \in Sources : ProcessSource(s)
    \/ WaitForCompletion
    \/ WaitForCompletionRaises
    \/ StepLimitReached
    \/ HandleAllFailed
    \/ Layer0
    \/ Layer1
    \/ Layer2

Spec == Init /\ [][Next]_vars

\* Every enabled step of the run is eventually taken: the executor keeps
\* scheduling nodes and every oracle call returns or fails.
FairSpec == Spec /\ WF_vars(Next)

-----------------------------------------------------------------------------
(* SpecRuns: run_workflow called again on the workflow singleton.              *)
(* get_workflow() hands every caller the same SpecExtractionWorkflow, whose    *)
(* graph is compiled with one MemorySaver; run_workflow without a config uses  *)
(* thread_id "default".  graph.invoke on a thread that has a checkpoint starts *)
(* from the saved channel values and applies the input as an update: a field   *)
(* without reducer is overwritten by the input, logs (reducer operator.add) is *)
(* the saved log followed by the input's log.                                  *)

\* Number of run_workflow calls made one after the other.
MaxRuns == 2

\* Inputs of these runs: no file, a key without a node, one source at the minimum.
RunFiles ==
    { NoFiles, [k \in {UnknownKey} |-> MinRows], [k \in {"search_keywords"} |-> MinRows] }

RunsInit ==
    /\ \E files \in RunFiles : CreateInitialState(files)
    /\ node = [s \in Sources |-> "pending"]
    /\ pc = "init"
    /\ route = "none"
    /\ gateEvals = 0
    /\ returned = NotReturned
    /\ checkpoint = <<>>
    /\ runs = 1
    /\ JobUnused
    /\ StreamUnused
    /\ TaskUnused
    /\ BuildUnused
    /\ ParseUnused

\* After run_workflow returned, the caller builds a new state with
\* create_initial_state and calls run_workflow on the singleton again; the
\* checkpointer still holds the channel values the earlier run left.
RunAgain ==
    /\ pc = "returned"
    /\ runs < MaxRuns
    /\ runs' = runs + 1
    /\ checkpoint' = logs
    /\ \E files \in RunFiles :
          /\ uploaded_files' = files
          /\ status' = [s \in Sources |-> IF s \in DOMAIN files THEN "idle" ELSE "not_uploaded"]
    /\ result' = [s \in Sources |-> EmptyResult]
    /\ error' = [s \in Sources |-> ""]
    /\ current_step' = "initialization"
    /\ progress_percentage' = 0
    /\ logs' = <<"Initialized single-stage workflow">>
    /\ triangulated_result' = <<>>
    /\ triangulated_table' = <<>>
    /\ node' = [s \in Sources |-> "pending"]
    /\ pc' = "init"
    /\ route' = "none"
    /\ gateEvals' = 0
    /\ returned' = NotReturned
    /\ bpc' = "idle"
    /\ llmCalls' = NoCalls
    /\ first_attempt' = NoAttempt
    /\ validation' = NoValidation
    /\ processing_logs' = <<>>
    /\ datasets' = {}
    /\ retry' = NoRetry
    /\ UNCHANGED <<parseVars, jobVars, streamVars, taskVars>>

RunsNext == Next \/ RunAgain

SpecRuns == RunsInit /\ [][RunsNext]_vars

-----------------------------------------------------------------------------
(* SpecStream: stream_workflow, the generator over graph.stream.               *)
(* The body of a generator executes only between a next() of its consumer and  *)
(* the following yield.  graph.stream yields one chunk {node: update} for each *)
(* node transition; stream_workflow yields it on.  close() raises              *)
(* GeneratorExit at the yield where the generator is suspended.                *)

\* The generator is executing (its consumer is inside next()).
StreamRunning_Drains == stream \in {"running", "closed"}

StreamRunning == stream = "running"

\* Inputs of the streamed runs: any set of keys, every CSV at the minimum of rows
\* but the one of whatsapp_specs, which may be one row short.
StreamFiles ==
    {f \in InputFiles :
        \A k \in DOMAIN f : f[k] = MinRows \/ (k = "whatsapp_specs" /\ f[k] = MinRows - 1)}

StreamInit ==
    /\ \E files \in StreamFiles : CreateInitialState(files)
    /\ node = [s \in Sources |-> "pending"]
    /\ pc = "init"
    /\ route = "none"
    /\ gateEvals = 0
    /\ returned = NotReturned
    /\ checkpoint = <<>>
    /\ runs = 1
    /\ BuildUnused
    /\ ParseUnused
    /\ JobUnused
    /\ TaskUnused
    /\ stream = "created"
    /\ chunk = NoChunk

\* The consumer calls next() on the generator.
ConsumerNext ==
    /\ stream \in {"created", "suspended"}
    /\ stream' = "running"
    /\ UNCHANGED <<chunk, wfVars, buildVars, parseVars, threadVars, jobVars, taskVars>>

\* The consumer calls close(): GeneratorExit is raised at the yield (or the body
\* never starts), the handler returns.
ConsumerCloses ==
    /\ stream \in {"created", "suspended"}
    /\ stream' = "closed"
    /\ UNCHANGED <<chunk, wfVars, buildVars, parseVars, threadVars, jobVars, taskVars>>

\* stream_workflow up to graph.stream (the first next() enters the body).
StreamWorkflowStart ==
    /\ StreamRunning
    /\ pc = "init"
    /\ current_step' = "starting_extraction"
    /\ progress_percentage' = StartProgress
    /\ logs' = checkpoint \o Append(logs, StartLog)
    /\ pc' = "running"
    /\ UNCHANGED <<uploaded_files, status, result, error, triangulated_result,
                   triangulated_table, node, route, gateEvals, returned, buildVars,
                   parseVars, threadVars, jobVars, streamVars, taskVars>>

\* yield chunk
Yield(name, update) ==
    /\ chunk' = [node |-> name, update |-> update]
    /\ stream' = "suspended"

\* Node process_<source> under the stream.
StreamProcessSource(s) ==
    /\ StreamRunning
    /\ pc = "running"
    /\ node[s] = "pending"
    /\ node' = [node EXCEPT ![s] = "done"]
    /\ IF s \notin DOMAIN uploaded_files
       THEN /\ Yield(s, <<>>)
            /\ UNCHANGED <<status, result, error, logs>>
       ELSE \E res \in ProcessSourceResults(s, uploaded_files[s]) :
               LET entry == "Agent " \o s \o ": " \o GetStatusMessage(res) IN
               /\ status' = [status EXCEPT ![s] = res.status]
               /\ result' = [result EXCEPT ![s] = res]
               /\ error' = [error EXCEPT ![s] = res.error]
               /\ logs' = Append(logs, entry)
               /\ Yield(s, [status |-> res.status, result |-> res, error |-> res.error,
                            logs |-> <<entry>>])
    /\ UNCHANGED <<uploaded_files, current_step, progress_percentage,
                   triangulated_result, triangulated_table, pc, route, gateEvals,
                   returned, buildVars, parseVars, threadVars, jobVars, taskVars>>

\* Node wait_for_completion and its conditional edge under the stream.
StreamWaitForCompletion ==
    /\ StreamRunning
    /\ pc = "running"
    /\ \A s \in Sources : node[s] = "done"
    /\ route \in {"none", "wait"}
    /\ gateEvals < MaxGateEvals
    /\ total_count > 0
    /\ progress_percentage' = GateProgress
    /\ current_step' = GateStep
    /\ logs' = Append(logs, GateLog)
    /\ route' = CheckAllAgentsCompleted
    /\ gateEvals' = gateEvals + 1
    /\ Yield("wait_for_completion",
             [progress_percentage |-> GateProgress, current_step |-> GateStep,
              logs |-> <<GateLog>>])
    /\ UNCHANGED <<uploaded_files, status, result, error, triangulated_result,
                   triangulated_table, node, pc, returned, buildVars, parseVars,
                   threadVars, jobVars, taskVars>>

\* graph.stream raises (the gate divides by zero, or the step limit is reached):
\* the except branch yields the caller's dict under the key "error".
StreamRaises ==
    /\ StreamRunning
    /\ pc = "running"
    /\ \A s \in Sources : node[s] = "done"
    /\ \E msg \in {"division by zero", "recursion limit reached"} :
          /\ msg = "division by zero" => (route = "none" /\ total_count = 0)
          /\ msg = "recursion limit reached" => (route = "wait" /\ gateEvals = MaxGateEvals)
          /\ Yield("error", FailedReturn(msg))
    /\ pc' = "failed"
    /\ UNCHANGED <<uploaded_files, status, result, error, current_step,
                   progress_percentage, logs, triangulated_result, triangulated_table,
                   node, route, gateEvals, returned, buildVars, parseVars, threadVars,
                   jobVars, taskVars>>

\* Node handle_all_failed under the stream.
StreamHandleAllFailed ==
    /\ StreamRunning
    /\ pc = "running"
    /\ route = "all_failed"
    /\ LET summary == <<"Processing failed for all sources:">> \o ErrorSummary(SourceOrder)
           entry == "Workflow failed: All extraction agents failed" IN
          /\ current_step' = "all_failed"
          /\ progress_percentage' = FailedProgress
          /\ logs' = Append(logs, entry)
          /\ triangulated_result' = summary
          /\ Yield("handle_all_failed",
                   [current_step |-> "all_failed", progress_percentage |-> FailedProgress,
                    logs |-> <<entry>>, triangulated_result |-> summary])
    /\ route' = "end"
    /\ UNCHANGED <<uploaded_files, status, result, error, triangulated_table, node,
                   pc, gateEvals, returned, buildVars, parseVars, threadVars, jobVars,
                   taskVars>>

\* What _triangulate_with_validation can return: the layer-0 answer when it is
\* found valid or when the correction fails, the answer of the correction otherwise.
BuildResults ==
    LET start == <<"Starting main PNS triangulation",
                   "Layer 1: Validating triangulation results">>
        found(v) == "Layer 1: Found " \o ToString(Len(v.issues))
                        \o " issues. Starting Layer 2 correction"
        validations == {ValidationError(e) : e \in OracleErrors}
                          \cup {ParseValidationResponse(r) : r \in ValidationResponses}
    IN  { [result |-> t0, table |-> ParseTriangulationResult(t0),
           logs |-> Append(start, "Layer 1: Validation passed - no issues found")] :
             t0 \in ResponseTexts }
        \cup
        { [result |-> t0, table |-> ParseTriangulationResult(t0),
           logs |-> start \o <<found(v), "Layer 2: Correction failed (" \o e
                                            \o ") - using original result">>] :
             t0 \in ResponseTexts, v \in {w \in validations : ~w.is_valid}, e \in OracleErrors }
        \cup
        { [result |-> t2, table |-> ParseTriangulationResult(t2),
           logs |-> start \o <<found(v), "Layer 2: Correction completed - using improved result">>] :
             t2 \in ResponseTexts, v \in {w \in validations : ~w.is_valid} }

\* Node triangulate_results under the stream: one node transition, whatever the
\* build does inside.
StreamTriangulateResults ==
    /\ StreamRunning
    /\ pc = "running"
    /\ route = "triangulate"
    /\ \/ \E msg \in (IF CompletedAgents = {}
                      THEN {"No completed CSV agent results for triangulation"}
                      ELSE OracleErrors) :
             LET entry == "PNS validation failed: " \o msg IN
             /\ current_step' = "triangulation_failed"
             /\ logs' = Append(logs, entry)
             /\ Yield("triangulate_results",
                      [current_step |-> "triangulation_failed", logs |-> <<entry>>])
             /\ bpc' = "raised"
             /\ UNCHANGED <<triangulated_result, triangulated_table, progress_percentage,
                            processing_logs>>
       \/ /\ CompletedAgents # {}
          /\ \E b \in BuildResults :
                LET entries == Append(b.logs, "Triangulation completed successfully") IN
                /\ triangulated_result' = b.result
                /\ triangulated_table' = b.table
                /\ current_step' = "completed"
                /\ progress_percentage' = 100
                /\ logs' = logs \o entries
                /\ processing_logs' = b.logs
                /\ Yield("triangulate_results",
                         [triangulated_result |-> b.result, triangulated_table |-> b.table,
                          current_step |-> "completed", progress_percentage |-> 100,
                          logs |-> entries])
                /\ bpc' = "returned"
    /\ route' = "end"
    /\ UNCHANGED <<uploaded_files, status, result, error, node, pc, gateEvals, returned,
                   llmCalls, first_attempt, validation, datasets, retry, parseVars,
                   threadVars, jobVars, taskVars>>

\* graph.stream is exhausted after an end node (or the error chunk was taken):
\* the generator returns, next() raises StopIteration.
StreamEnds ==
    /\ StreamRunning
    /\ route = "end" \/ pc = "failed"
    /\ stream' = "exhausted"
    /\ UNCHANGED <<chunk, wfVars, buildVars, parseVars, threadVars, jobVars, taskVars>>

StreamNext ==
    \/ ConsumerNext
    \/ ConsumerCloses
    \/ StreamWorkflowStart
    \/ \E s \in Sources : StreamProcessSource(s)
    \/ StreamWaitForCompletion
    \/ StreamRaises
    \/ StreamHandleAllFailed
    \/ StreamTriangulateResults
    \/ StreamEnds

SpecStream == StreamInit /\ [][StreamNext]_vars

-----------------------------------------------------------------------------
(* SpecJob: the job record of the API service (pnsBase-fastApi).               *)
(* POST /analyze creates the hash job:<job_id> and starts process_analysis_job *)
(* as a background task; the task reports through update_job_status and        *)
(* store_job_results.  update_job_status writes its fields with one hset each, *)
(* status first, and turns every Redis error into the value False, so a write  *)
(* may be lost as a whole or after the status field.                           *)

\* What happens to the hset calls of one update: all succeed, the connection is
\* lost after the status field, or no call succeeds.
RedisOutcomes == {"ok", "status_only", "down"}

\* Texts of the failures the data fetcher and the workflow report.
JobErrors == {"PNS data not available", "Workflow failed: timeout"}

\* Progress written with each status.
CreatedProgress == 0
PnsFetchingProgress == 10
AnalyzingProgress == 50
CompletedProgress == 100
JobFailedProgress == 0

\* update_job_status(job_id, status, progress, current_step, error) on the hash h;
\* every caller passes a progress (0 is not None and is written), current_step
\* and error are written when they are not empty.
UpdateJobStatus(h, st, progress, step, err, outcome) ==
    CASE outcome = "down"        -> h
      [] outcome = "status_only" -> [h EXCEPT !.status = st]
      [] OTHER ->
            [h EXCEPT !.status = st,
                      !.progress = progress,
                      !.current_step = IF step # "" THEN step ELSE @,
                      !.error = IF err # "" THEN err ELSE @]

JobInit ==
    /\ WorkflowUnused
    /\ BuildUnused
    /\ ParseUnused
    /\ StreamUnused
    /\ TaskUnused
    /\ job = [j \in Jobs |-> NoJob]
    /\ jpc = [j \in Jobs |-> "new"]
    /\ run_phase = [j \in Jobs |-> "none"]
    /\ results_ttl = [j \in Jobs |-> "none"]
    /\ reader = [j \in Jobs |-> NoRequest]

\* POST /analyze: create_job, then the background task is added; when Redis does
\* not answer the ping the request fails and no task is started.
CreateJob(j) ==
    /\ jpc[j] = "new"
    /\ \/ /\ job' = [job EXCEPT ![j] = [NoJob EXCEPT !.status = "processing",
                                                     !.progress = CreatedProgress]]
          /\ jpc' = [jpc EXCEPT ![j] = "queued"]
       \/ /\ jpc' = [jpc EXCEPT ![j] = "rejected"]
          /\ UNCHANGED job
    /\ UNCHANGED <<run_phase, results_ttl, reader, wfVars, buildVars, parseVars, threadVars, streamVars, taskVars>>

\* Step 1 of process_analysis_job: status PNS_FETCHING.
StartFetching(j) ==
    /\ jpc[j] = "queued"
    /\ \E o \in RedisOutcomes :
          job' = [job EXCEPT ![j] = UpdateJobStatus(@, "pns_fetching", PnsFetchingProgress,
                                                    "Fetching PNS data", "", o)]
    /\ jpc' = [jpc EXCEPT ![j] = "fetching"]
    /\ UNCHANGED <<run_phase, results_ttl, reader, wfVars, buildVars, parseVars, threadVars, streamVars, taskVars>>

\* fetch_all_data returned the PNS and CSV data.
FetchSucceeded(j) ==
    /\ jpc[j] = "fetching"
    /\ jpc' = [jpc EXCEPT ![j] = "fetched"]
    /\ UNCHANGED <<job, run_phase, results_ttl, reader, wfVars, buildVars, parseVars, threadVars, streamVars, taskVars>>

\* Mutant of FetchFailed: the return after the FAILED update is missing.
FetchFailed_NoReturn(j) ==
    /\ jpc[j] = "fetching"
    /\ \E e \in JobErrors : \E o \in RedisOutcomes :
          job' = [job EXCEPT ![j] = UpdateJobStatus(@, "failed", JobFailedProgress, "", e, o)]
    /\ jpc' = [jpc EXCEPT ![j] = "fetched"]
    /\ UNCHANGED <<run_phase, results_ttl, reader, wfVars, buildVars, parseVars, threadVars, streamVars, taskVars>>

\* fetch_all_data returned data_success False: status FAILED with progress 0, return.
FetchFailed(j) ==
    /\ jpc[j] = "fetching"
    /\ \E e \in JobErrors : \E o \in RedisOutcomes :
          job' = [job EXCEPT ![j] = UpdateJobStatus(@, "failed", JobFailedProgress, "", e, o)]
    /\ jpc' = [jpc EXCEPT ![j] = "done"]
    /\ UNCHANGED <<run_phase, results_ttl, reader, wfVars, buildVars, parseVars, threadVars, streamVars, taskVars>>

\* Step 3: status ANALYZING.
StartAnalyzing(j) ==
    /\ jpc[j] = "fetched"
    /\ \E o \in RedisOutcomes :
          job' = [job EXCEPT ![j] = UpdateJobStatus(@, "analyzing", AnalyzingProgress,
                                                    "Processing specifications", "", o)]
    /\ jpc' = [jpc EXCEPT ![j] = "analyzing"]
    /\ UNCHANGED <<run_phase, results_ttl, reader, wfVars, buildVars, parseVars, threadVars, streamVars, taskVars>>

\* The phases run_workflow ends in: current_step of the state it returns.
RunPhases == {"completed", "all_failed", "triangulation_failed", "workflow_failed"}

\* Mutant of WorkflowResults: run_complete_workflow reports a run that did not
\* end in phase completed as an error.
WorkflowResults_ChecksPhase(phase) ==
    IF phase = "completed" THEN [status |-> "completed", error |-> ""]
    ELSE [status |-> "failed", error |-> "Workflow ended in " \o phase]

\* The dict run_complete_workflow returns after run_workflow returned a state in
\* the given phase (216-256): it reads the results and the table out of the
\* state and does not look at current_step.
WorkflowResults(phase) == [status |-> "completed", error |-> ""]

\* Step 4, _process_analysis_data: run_complete_workflow wraps one run_workflow
\* call; "error" in its result raises, and so does a failing conversion of the
\* results to the API format.  The except branch of process_analysis_job writes
\* FAILED with progress 0.
RunWorkflow(j) ==
    /\ jpc[j] = "analyzing"
    /\ \E phase \in RunPhases :
          /\ run_phase' = [run_phase EXCEPT ![j] = phase]
          /\ IF WorkflowResults(phase).error # ""
             THEN /\ \E o \in RedisOutcomes :
                        job' = [job EXCEPT ![j] =
                                   UpdateJobStatus(@, "failed", JobFailedProgress, "",
                                                   "Workflow failed: " \o WorkflowResults(phase).error, o)]
                  /\ jpc' = [jpc EXCEPT ![j] = "done"]
             ELSE /\ jpc' = [jpc EXCEPT ![j] = "ran"]
                  /\ UNCHANGED job
    /\ UNCHANGED <<results_ttl, reader, wfVars, buildVars, parseVars, threadVars,
                   streamVars, taskVars>>

\* _process_analysis_data raised (PNS processing failed before any run, or the
\* conversion of the results raised after it): the except branch writes FAILED
\* with progress 0.
AnalysisFailed(j) ==
    /\ jpc[j] \in {"analyzing", "ran"}
    /\ \E e \in JobErrors : \E o \in RedisOutcomes :
          job' = [job EXCEPT ![j] = UpdateJobStatus(@, "failed", JobFailedProgress, "", e, o)]
    /\ jpc' = [jpc EXCEPT ![j] = "done"]
    /\ UNCHANGED <<run_phase, results_ttl, reader, wfVars, buildVars, parseVars,
                   threadVars, streamVars, taskVars>>

\* Mutant of SetResults: the status completed is written before the results key.
SetResults_StatusFirst(j) ==
    /\ jpc[j] = "ran"
    /\ job' = [job EXCEPT ![j] = UpdateJobStatus(@, "completed", CompletedProgress, "", "", "ok")]
    /\ jpc' = [jpc EXCEPT ![j] = "stored"]
    /\ UNCHANGED <<run_phase, results_ttl, reader, wfVars, buildVars, parseVars,
                   threadVars, streamVars, taskVars>>

\* Step 5, store_job_results up to its first await: redis.set of the results
\* key; a Redis error ends store_job_results, which returns False, and
\* process_analysis_job goes on to its end.
SetResults(j) ==
    /\ jpc[j] = "ran"
    /\ \/ /\ job' = [job EXCEPT ![j].results = TRUE]
          /\ jpc' = [jpc EXCEPT ![j] = "stored"]
       \/ /\ jpc' = [jpc EXCEPT ![j] = "done"]
          /\ UNCHANGED job
    /\ UNCHANGED <<run_phase, results_ttl, reader, wfVars, buildVars, parseVars,
                   threadVars, streamVars, taskVars>>

\* store_job_results after the set: status completed with progress 100.
MarkCompleted(j) ==
    /\ jpc[j] = "stored"
    /\ \E o \in RedisOutcomes :
          job' = [job EXCEPT ![j] = UpdateJobStatus(@, "completed", CompletedProgress, "", "", o)]
    /\ jpc' = [jpc EXCEPT ![j] = "marked"]
    /\ UNCHANGED <<run_phase, results_ttl, reader, wfVars, buildVars, parseVars,
                   threadVars, streamVars, taskVars>>

\* store_job_results to its end: redis.expire on the results key, which a Redis
\* error may lose; process_analysis_job returns.
SetExpiry(j) ==
    /\ jpc[j] = "marked"
    /\ \/ results_ttl' = [results_ttl EXCEPT ![j] = "set"]
       \/ UNCHANGED results_ttl
    /\ jpc' = [jpc EXCEPT ![j] = "done"]
    /\ UNCHANGED <<job, run_phase, reader, wfVars, buildVars, parseVars, threadVars,
                   streamVars, taskVars>>

\* Redis discards the results key when its time-to-live is over.
ResultsExpire(j) ==
    /\ results_ttl[j] = "set"
    /\ results_ttl' = [results_ttl EXCEPT ![j] = "expired"]
    /\ job' = [job EXCEPT ![j].results = FALSE]
    /\ UNCHANGED <<jpc, run_phase, reader, wfVars, buildVars, parseVars, threadVars,
                   streamVars, taskVars>>

\* GET /jobs/<job_id>/results up to its second await: get_job_status, and the
\* answers 404 and 400 for a job that is unknown, failed or not completed.
ReaderGetsStatus(j) ==
    /\ reader[j] = NoRequest
    /\ reader' = [reader EXCEPT ![j] =
          CASE job[j].status = "none"      -> [seen |-> "none", response |-> "job_not_found"]
            [] job[j].status = "failed"    -> [seen |-> "failed", response |-> "job_failed"]
            [] job[j].status # "completed" -> [seen |-> job[j].status, response |-> "not_completed"]
            [] OTHER                       -> [seen |-> "completed", response |-> "none"]]
    /\ UNCHANGED <<job, jpc, run_phase, results_ttl, wfVars, buildVars, parseVars,
                   threadVars, streamVars, taskVars>>

\* GET /jobs/<job_id>/results after the status was found completed:
\* job_manager.get_job_results, 404 when the key holds nothing.
ReaderGetsResults(j) ==
    /\ reader[j].seen = "completed"
    /\ reader[j].response = "none"
    /\ reader' = [reader EXCEPT ![j].response =
                     IF job[j].results THEN "results" ELSE "results_not_found"]
    /\ UNCHANGED <<job, jpc, run_phase, results_ttl, wfVars, buildVars, parseVars,
                   threadVars, streamVars, taskVars>>

\* The steps of the background task of job j.
JobStep(j) ==
    \/ StartFetching(j)
    \/ FetchSucceeded(j)
    \/ FetchFailed(j)
    \/ StartAnalyzing(j)
    \/ RunWorkflow(j)
    \/ AnalysisFailed(j)
    \/ SetResults(j)
    \/ MarkCompleted(j)
    \/ SetExpiry(j)

JobNext ==
    \E j \in Jobs :
        \/ CreateJob(j)
        \/ JobStep(j)

SpecJob == JobInit /\ [][JobNext]_vars

\* The event loop runs a background task to its end: every await of
\* process_analysis_job returns or raises.
FairSpecJob == SpecJob /\ \A j \in Jobs : WF_vars(JobStep(j))

\* SpecRead: one job, the time-to-live of its results, and the requests
\* GET /jobs/<job_id>/results for it and for a job id that was never created,
\* each at any moment of the background task.
ReadInit ==
    /\ WorkflowUnused
    /\ BuildUnused
    /\ ParseUnused
    /\ StreamUnused
    /\ TaskUnused
    /\ job = [j \in Jobs |-> NoJob]
    /\ jpc = [j \in Jobs |-> IF j = "job1" THEN "new" ELSE "unused"]
    /\ run_phase = [j \in Jobs |-> "none"]
    /\ results_ttl = [j \in Jobs |-> "none"]
    /\ reader = [j \in Jobs |-> NoRequest]

ReadNext ==
    \E j \in Jobs :
        \/ CreateJob(j)
        \/ JobStep(j)
        \/ ResultsExpire(j)
        \/ ReaderGetsStatus(j)
        \/ ReaderGetsResults(j)

SpecRead == ReadInit /\ [][ReadNext]_vars

-----------------------------------------------------------------------------
(* SpecTask: one call of ExtractionAgent.process_source, oracle call by oracle *)
(* call.  A CSV is its number of data rows and the columns it has; a chunk is  *)
(* the range of positions df.iloc cut out of the frame, and the order the      *)
(* frame's rows were in when the chunk's text was written.                     *)

\* Row counts of the CSV of a task: below and at the minimum, at the chunk size
\* of the source, one above it, at twice the chunk size and one above that.
TaskRowCounts(s) ==
    {MinRows - 1, MinRows, ChunkRows(s), ChunkRows(s) + 1, 2 * ChunkRows(s),
     2 * ChunkRows(s) + 1}

\* The calls the model follows: a source, the rows of its CSV, and whether the
\* CSV has the data column and the frequency column of COLUMN_MAPPINGS[source].
TaskInputs ==
    { [source |-> s, rows |-> n, data_column |-> d, frequency_column |-> f] :
        s \in Sources, n \in UNION {TaskRowCounts(x) : x \in Sources},
        d \in BOOLEAN, f \in BOOLEAN }

\* Answers of the oracle to the request of one chunk, and to the merge request.
ChunkTexts == {"table A", "table B"}
MergeTexts == {"merged table"}

Min(a, b) == IF a < b THEN a ELSE b

\* Mutant of Slice: the slice takes one row more than the step of the loop.
Slice_Overlapping(i, size, n) == [first |-> i, last |-> Min(i + size + 1, n) - 1]

\* df.iloc[i:i + adaptive_max_rows] on a frame of n rows: positions i to
\* i + size - 1, cut at the end of the frame.
Slice(i, size, n) == [first |-> i, last |-> Min(i + size, n) - 1]

RECURSIVE CutChunks(_, _, _, _, _)
\* for i in range(0, len(df), adaptive_max_rows): chunks.append(text of the slice)
CutChunks(i, size, n, order, acc) ==
    IF i >= n THEN acc
    ELSE CutChunks(i + size, size, n, order,
                   Append(acc, [first |-> Slice(i, size, n).first,
                                last  |-> Slice(i, size, n).last,
                                order |-> order]))

\* The formatter of the source finds its columns in the frame:
\* _process_search_keywords_advanced needs the data and the frequency column,
\* the formatters of the other sources the data column.
ColumnsFound(t) ==
    t.data_column /\ (t.source = "search_keywords" => t.frequency_column)

\* The order of the rows in the text of a chunk: search_keywords frames are
\* sorted by the frequency column, descending, before the loop (line 63) and
\* again by the formatter (line 567); the other frames keep the order of the CSV.
RowOrder(t) ==
    IF t.source = "search_keywords" /\ t.frequency_column
    THEN "frequency_descending" ELSE "input"

\* DataProcessor.process_csv_data(file_content, source_name): the chunks, or the
\* exception of a formatter that misses a column.
ProcessCsvData(t) ==
    IF BelowMinimum(t.rows) THEN [raised |-> FALSE, chunks |-> <<>>]
    ELSE IF ~ColumnsFound(t) THEN [raised |-> TRUE, chunks |-> <<>>]
    ELSE IF t.rows > ChunkRows(t.source)
         THEN [raised |-> FALSE,
               chunks |-> CutChunks(0, ChunkRows(t.source), t.rows, RowOrder(t), <<>>)]
         ELSE [raised |-> FALSE,
               chunks |-> << [first |-> 0, last |-> t.rows - 1, order |-> RowOrder(t)] >>]

\* Mutant of MergeNeeded: the merge call is made for a single chunk too.
MergeNeeded_Always(n) == n >= 1

\* len(data_chunks) > 1
MergeNeeded(n) == n > 1

TaskInit ==
    /\ WorkflowUnused
    /\ BuildUnused
    /\ ParseUnused
    /\ JobUnused
    /\ StreamUnused
    /\ task \in TaskInputs
    /\ task.rows \in TaskRowCounts(task.source)
    /\ tpc = "start"
    /\ data_chunks = <<>>
    /\ all_chunk_results = <<>>
    /\ oracle_log = <<>>
    /\ task_result = EmptyResult

\* The dict process_source returns from its except branch.
TaskFailed(e, log) ==
    [status |-> "failed", extracted_specs |-> "", error |-> e, exclusion_reason |-> "",
     chunks_processed |-> 0, oracle_calls |-> Len(log)]

\* The dict process_source returns at its end.
TaskCompleted(extracted_specs, log) ==
    [status |-> "completed", extracted_specs |-> extracted_specs, error |-> "",
     exclusion_reason |-> "", chunks_processed |-> Len(data_chunks),
     oracle_calls |-> Len(log)]

\* process_source up to its first oracle call: process_csv_data, and the return
\* of an excluded source.
TaskStart ==
    /\ tpc = "start"
    /\ LET r == ProcessCsvData(task) IN
         /\ data_chunks' = r.chunks
         /\ IF r.raised
            THEN /\ task_result' = TaskFailed("Required columns missing", oracle_log)
                 /\ tpc' = "returned"
            ELSE IF r.chunks = <<>>
            THEN /\ task_result' =
                       [status |-> "excluded", extracted_specs |-> "", error |-> "",
                        exclusion_reason |-> "Insufficient rows: Dataset contains less than 10 rows required for processing",
                        chunks_processed |-> 0, oracle_calls |-> 0]
                 /\ tpc' = "returned"
            ELSE /\ tpc' = "chunk"
                 /\ UNCHANGED task_result
    /\ UNCHANGED <<task, all_chunk_results, oracle_log, wfVars, buildVars, parseVars,
                   threadVars, jobVars, streamVars>>

\* One pass of the loop over data_chunks: the oracle call of the next chunk; after
\* the last chunk of a single-chunk task, the return of its text.
ChunkCall ==
    /\ tpc = "chunk"
    /\ LET chunk_idx == Len(all_chunk_results) + 1 IN
         \/ \E txt \in ChunkTexts :
               /\ oracle_log' = Append(oracle_log,
                     [kind |-> "chunk", index |-> chunk_idx, input |-> <<>>, ok |-> TRUE])
               /\ all_chunk_results' = Append(all_chunk_results, txt)
               /\ IF chunk_idx < Len(data_chunks)
                  THEN tpc' = "chunk" /\ UNCHANGED task_result
                  ELSE IF MergeNeeded(Len(data_chunks))
                  THEN tpc' = "merge" /\ UNCHANGED task_result
                  ELSE /\ tpc' = "returned"
                       /\ task_result' = TaskCompleted(all_chunk_results'[1], oracle_log')
         \/ \E e \in OracleErrors :
               /\ oracle_log' = Append(oracle_log,
                     [kind |-> "chunk", index |-> chunk_idx, input |-> <<>>, ok |-> FALSE])
               /\ task_result' = TaskFailed(e, oracle_log')
               /\ tpc' = "returned"
               /\ UNCHANGED all_chunk_results
    /\ UNCHANGED <<task, data_chunks, wfVars, buildVars, parseVars, threadVars, jobVars,
                   streamVars>>

\* _merge_chunk_results(all_chunk_results, ...): one oracle call on the chunk
\* answers under their labels "=== CHUNK i RESULTS ===", and the return.
MergeCall ==
    /\ tpc = "merge"
    /\ \/ \E txt \in MergeTexts :
             /\ oracle_log' = Append(oracle_log,
                   [kind |-> "merge", index |-> 0, input |-> all_chunk_results, ok |-> TRUE])
             /\ task_result' = TaskCompleted(txt, oracle_log')
       \/ \E e \in OracleErrors :
             /\ oracle_log' = Append(oracle_log,
                   [kind |-> "merge", index |-> 0, input |-> all_chunk_results, ok |-> FALSE])
             /\ task_result' = TaskFailed(e, oracle_log')
    /\ tpc' = "returned"
    /\ UNCHANGED <<task, data_chunks, all_chunk_results, wfVars, buildVars, parseVars,
                   threadVars, jobVars, streamVars>>

TaskNext == TaskStart \/ ChunkCall \/ MergeCall

SpecTask == TaskInit /\ [][TaskNext]_vars

-----------------------------------------------------------------------------
(* SpecGate: check_all_agents_completed on an arbitrary state *)

StatusValues == {"idle", "not_uploaded", "processing", "completed", "failed", "excluded"}

GateInit ==
    /\ uploaded_files \in UNION { [K -> {MinRows}] : K \in SUBSET Sources }
    /\ status \in [Sources -> StatusValues]
    /\ result = [s \in Sources |-> EmptyResult]
    /\ error = [s \in Sources |-> ""]
    /\ current_step = "initialization"
    /\ progress_percentage = 0
    /\ logs = <<>>
    /\ triangulated_result = <<>>
    /\ triangulated_table = <<>>
    /\ node = [s \in Sources |-> "done"]
    /\ pc = "gate"
    /\ route = "none"
    /\ gateEvals = 0
    /\ returned = NotReturned
    /\ checkpoint = <<>>
    /\ runs = 1
    /\ JobUnused
    /\ StreamUnused
    /\ TaskUnused
    /\ BuildUnused
    /\ ParseUnused

\* The conditional edge evaluates check_all_agents_completed(state).
EvaluateGate ==
    /\ pc = "gate"
    /\ route = "none"
    /\ route' = CheckAllAgentsCompleted
    /\ UNCHANGED <<uploaded_files, status, result, error, current_step,
                   progress_percentage, logs, triangulated_result, triangulated_table,
                   node, pc, gateEvals, returned, buildVars, parseVars, threadVars, jobVars, streamVars,
                   taskVars>>

GateNext == EvaluateGate

SpecGate == GateInit /\ [][GateNext]_vars

-----------------------------------------------------------------------------
(* Claims about the run (Spec) and the gate (SpecGate) *)

Terminal == {"completed", "failed", "excluded"}

AllConfiguredTerminal == \A k \in DOMAIN uploaded_files : AgentStatus(k) \in Terminal

\* triangulate_results or _handle_all_failed has started to execute.
DownstreamRan == bpc # "idle" \/ current_step = "all_failed"

\* C1: triangulate_results and _handle_all_failed execute only when every key of
\* uploaded_files is completed, failed or excluded; while some key is not, every
\* gate evaluation yields 'wait' and neither node has run.
C1_JoinBarrier ==
    /\ DownstreamRan => AllConfiguredTerminal
    /\ (gateEvals > 0 /\ ~AllConfiguredTerminal) => (route = "wait" /\ ~DownstreamRan)

\* The consensus builder has run after one source failed and another completed.
C1_Witness ==
    /\ bpc = "returned"
    /\ \E a, b \in DOMAIN uploaded_files : AgentStatus(a) = "failed" /\ AgentStatus(b) = "completed"

\* C2 (as stated): for every set of configured sources and every assignment of
\* statuses to the four sources the gate returns 'triangulate' iff every configured
\* source is terminal and a configured source is completed, 'all_failed' iff every
\* configured source is terminal and none is completed, 'wait' otherwise.
C2_GateDecision ==
    route # "none" =>
        route = IF AllConfiguredTerminal
                THEN IF \E k \in DOMAIN uploaded_files : AgentStatus(k) = "completed"
                     THEN "triangulate" ELSE "all_failed"
                ELSE "wait"

\* run_workflow returned after an end node (triangulate_results or handle_all_failed).
EndNodeFinished ==
    returned.current_step \in {"completed", "triangulation_failed", "all_failed"}

\* C3 (as stated): from every initial state the run reaches an end node: when
\* run_workflow returns, triangulate_results or _handle_all_failed has finished.
C3_RunReachesEndNode == pc = "returned" => EndNodeFinished

\* C4 (as stated): progress_percentage never decreases from one step of a run to the next.
C4_ProgressMonotonic == [][progress_percentage' >= progress_percentage]_vars

\* C9: one build makes at most one call per layer, so at most one correction call
\* and at most three oracle calls, whatever the oracle answers.
C9_BoundedCalls ==
    /\ llmCalls.layer0 <= 1
    /\ llmCalls.layer1 <= 1
    /\ llmCalls.layer2 <= 1
    /\ llmCalls.layer0 + llmCalls.layer1 + llmCalls.layer2 <= 3

\* A build has returned after the validation call and the correction call both failed.
C9_Witness ==
    /\ bpc = "returned"
    /\ llmCalls = [layer0 |-> 1, layer1 |-> 1, layer2 |-> 1]
    /\ \E e \in OracleErrors :
          /\ validation = ValidationError(e)
          /\ processing_logs[Len(processing_logs)] =
                "Layer 2: Correction failed (" \o e \o ") - using original result"

\* Text that may surround an issue inside one log entry.
LogAffixes == {"", "Validation issue: ", "Issue: "}

\* The text of `issue` is present in an entry of `entries`.
IssueInLog(issue, entries) ==
    \E i \in 1..Len(entries) : \E pre \in LogAffixes :
        entries[i] = pre \o issue

\* C10 (as stated): when layer 1 reported issues and the build returned the very
\* table the issues were reported on (so that every one of them is unresolved),
\* each issue is present by its text in the logs the build returned and in the
\* run's log.
C10_UnresolvedIssuesLogged ==
    (bpc = "returned" /\ llmCalls.layer2 = 1 /\ triangulated_result = first_attempt.result)
        => \A i \in 1..Len(validation.issues) :
              /\ IssueInLog(validation.issues[i], processing_logs)
              /\ IssueInLog(validation.issues[i], logs)

-----------------------------------------------------------------------------
(* Claims about the extraction tasks (Spec) *)

C12_CompletedOnlyInput ==
    /\ llmCalls.layer0 >= 1 =>
          /\ {d.source : d \in datasets} = {s \in Sources : status[s] = "completed"}
          /\ \A d \in datasets : d.extracted_specs = result[d.source].extracted_specs
          /\ \A d \in datasets : status[d.source] \notin {"failed", "excluded"}
    /\ (pc = "running" /\ gateEvals > 0 /\ bpc = "idle") =>
          /\ progress_percentage =
                (Cardinality({k \in DOMAIN uploaded_files : AgentStatus(k) \in Terminal})
                    * ExtractionShare) \div Cardinality(DOMAIN uploaded_files)
          /\ AllConfiguredTerminal => route # "wait"

\* The layer-0 request was made after one source completed, one failed and one
\* was excluded.
C12_Witness ==
    /\ llmCalls.layer0 = 1
    /\ Cardinality(datasets) = 1
    /\ \E a, b \in Sources : status[a] = "failed" /\ status[b] = "excluded"
    /\ progress_percentage = ExtractionShare

\* C15: a task whose oracle call fails (a chunk call or the merge call) ends
\* failed with the error text in its source's error field and raises nothing: the
\* run goes on; the step of one task leaves the status, result and error of every
\* other source as they are, whatever the task's outcome.
C15_FailureIsLocal ==
    [][\A s \in Sources :
          (node[s] = "pending" /\ node'[s] = "done") =>
             /\ pc' = "running"
             /\ result'[s].status = "failed" =>
                   /\ status'[s] = "failed"
                   /\ error'[s] = result'[s].error
                   /\ error'[s] \in ExtractionErrors
                   /\ result'[s].oracle_calls \in
                         1..OracleCallsNeeded(ChunkCount(s, uploaded_files[s]))
             /\ \A t \in Sources \ {s} :
                   /\ status'[t] = status[t]
                   /\ result'[t] = result[t]
                   /\ error'[t] = error[t]
                   /\ node'[t] = node[t]]_vars

\* A task failed at its merge call while the run went on and a sibling completed.
C15_Witness ==
    /\ pc = "running"
    /\ \E s, t \in Sources :
          /\ status[s] = "failed"
          /\ result[s].chunks_processed = 0
          /\ result[s].oracle_calls = OracleCallsNeeded(ChunkCount(s, uploaded_files[s]))
          /\ result[s].oracle_calls > 1
          /\ status[t] = "completed"
          /\ route = "triangulate"

\* The configured sources whose extraction node has returned.
ReturnedTasks == {s \in Sources \cap DOMAIN uploaded_files : node[s] = "done"}

\* The log entry of the task of source s, as its outcome determines it.
TaskLog(s) == "Agent " \o s \o ": " \o GetStatusMessage(result[s])

\* C21: while the extraction tasks run, in whatever order they return, the fields
\* of a source are written by its own task only and are determined by that task's
\* outcome; the fields of a source whose task has not returned, and the fields no
\* task owns, are as the run started them; the log holds the two entries it
\* started with and exactly one entry for every task that returned, none lost or
\* overwritten.
C21_DisjointWrites ==
    (pc = "running" /\ gateEvals = 0) =>
        /\ \A s \in ReturnedTasks :
              /\ result[s] \in ProcessSourceResults(s, uploaded_files[s])
              /\ status[s] = result[s].status
              /\ error[s] = result[s].error
              /\ Cardinality({i \in 1..Len(logs) : logs[i] = TaskLog(s)}) = 1
        /\ \A s \in Sources \ ReturnedTasks :
              /\ status[s] = (IF s \in DOMAIN uploaded_files THEN "idle" ELSE "not_uploaded")
              /\ result[s] = EmptyResult
              /\ error[s] = ""
        /\ Len(logs) = 2 + Cardinality(ReturnedTasks)
        /\ SubSeq(logs, 1, 2) = <<"Initialized single-stage workflow", StartLog>>
        /\ current_step = "starting_extraction"
        /\ progress_percentage = StartProgress

\* All four tasks returned, and not in the order the nodes were added to the
\* graph: the entry of lms_chats precedes the entry of search_keywords.
C21_Witness ==
    /\ pc = "running"
    /\ gateEvals = 0
    /\ ReturnedTasks = Sources
    /\ \E i, j \in 1..Len(logs) :
          /\ i < j
          /\ logs[i] = TaskLog("lms_chats")
          /\ logs[j] = TaskLog("search_keywords")

-----------------------------------------------------------------------------
(* Claims about the failure paths of a run (Spec) *)

NoConfiguredCompleted == \A k \in DOMAIN uploaded_files : AgentStatus(k) # "completed"

\* C13 (as stated): when every configured source is terminal and none is
\* completed, the run ends through _handle_all_failed: the returned phase is
\* all_failed, the consensus table is empty and the build made no oracle call.
C13_AllFailedBranch ==
    (pc = "returned" /\ AllConfiguredTerminal /\ NoConfiguredCompleted) =>
        /\ returned.current_step = "all_failed"
        /\ returned.triangulated_table = <<>>
        /\ llmCalls = NoCalls

\* The configured sources whose task ended failed.
FailedSources == {s \in Sources \cap DOMAIN uploaded_files : status[s] = "failed"}

\* C14 (as stated): in a run that ends in phase all_failed the error summary holds
\* one entry "<source>: <error>" for each configured source that failed, whatever
\* error text the task captured.
C14_SummaryListsEveryFailure ==
    (pc = "returned" /\ returned.current_step = "all_failed") =>
        /\ \A s \in FailedSources :
              (s \o ": " \o error[s]) \in Range(Tail(returned.triangulated_result))
        /\ Len(returned.triangulated_result) - 1 = Cardinality(FailedSources)

\* C16: run_workflow never propagates an exception: whatever fails (an extraction
\* oracle call, a build oracle call, the gate's division with zero configured
\* sources, the parser), the run is never left without a next step before
\* run_workflow has handed a state back to its caller.
C16_AlwaysReturnsState ==
    /\ pc \in {"init", "running", "returned"}
    /\ (~ENABLED Next) => (pc = "returned" /\ returned.current_step # "none")

\* run_workflow returned from its except branch on a state with zero configured sources.
C16_Witness ==
    /\ pc = "returned"
    /\ DOMAIN uploaded_files = {}
    /\ returned.current_step = "workflow_failed"
    /\ returned.logs[Len(returned.logs)] = "Workflow execution failed: division by zero"

\* No field of the workflow state changes in a step taken once phase is completed
\* or all_failed.
ReadOnlyOnceTerminal ==
    current_step \in {"completed", "all_failed"} =>
        UNCHANGED <<uploaded_files, status, result, error, current_step,
                    progress_percentage, logs, triangulated_result, triangulated_table>>

-----------------------------------------------------------------------------
(* Claims about the validation and correction layers of the build (Spec) *)

\* C29: the correction call is made only after layer 1 found the result not
\* valid, and its request carries the layer-0 text and the issue list of layer 1,
\* which is not empty; when layer 1 found the result valid the build returns the
\* layer-0 text and table after two oracle calls, the correction is never called.
C29_CorrectionOnlyOnIssues ==
    /\ (bpc = "layer2" \/ llmCalls.layer2 >= 1) =>
          /\ ~validation.is_valid
          /\ retry.validation_issues # <<>>
          /\ retry.validation_issues = validation.issues
          /\ retry.first_attempt = first_attempt.result
    /\ (llmCalls.layer1 = 1 /\ validation.is_valid) =>
          /\ bpc = "returned"
          /\ llmCalls = [layer0 |-> 1, layer1 |-> 1, layer2 |-> 0]
          /\ retry = NoRetry
          /\ triangulated_result = first_attempt.result
          /\ triangulated_table = first_attempt.table

\* A correction was called with the one issue the validation parser makes up
\* for a FAIL that lists nothing, and the build returned its answer.
C29_Witness ==
    /\ bpc = "returned"
    /\ llmCalls.layer2 = 1
    /\ ~validation.is_valid
    /\ retry.validation_issues = <<"Validation failed but no specific issues identified">>
    /\ retry.outcome = "returned"

\* C30: when the correction call fails the build returns the layer-0 text and
\* table and its logs hold the failure with its error text; when it returns the
\* build returns the text of the correction and the table parsed from it; in
\* both cases the build returns to triangulate_results, which ends the run in
\* phase completed.
C30_CorrectionFallback ==
    llmCalls.layer2 >= 1 =>
        /\ bpc = "returned"
        /\ current_step = "completed"
        /\ retry.outcome \in {"failed", "returned"}
        /\ retry.outcome = "failed" =>
              /\ triangulated_result = first_attempt.result
              /\ triangulated_table = first_attempt.table
              /\ processing_logs[Len(processing_logs)] =
                    "Layer 2: Correction failed (" \o retry.error \o ") - using original result"
              /\ \E i \in 1..Len(logs) : logs[i] = processing_logs[Len(processing_logs)]
        /\ retry.outcome = "returned" =>
              /\ triangulated_result = retry.result
              /\ triangulated_table = ParseTriangulationResult(retry.result)

\* The correction call failed after layer 0 had given a table of five records,
\* and that table was returned.
C30_Witness ==
    /\ bpc = "returned"
    /\ retry.outcome = "failed"
    /\ retry.error \in OracleErrors
    /\ Len(triangulated_table) = TopK
    /\ returned.triangulated_table = first_attempt.table

\* The verdict of layer 1 is the one made up after the validation call raised.
ValidationCallFailed ==
    \E e \in OracleErrors : validation.issues = <<"Validation system error: " \o e>>

\* C31: when the layer-1 oracle call raises, the build goes on: the verdict is
\* not valid with exactly one issue, the correction is called next and exactly
\* once, and the build returns a text and a table (those of the correction, or
\* those of layer 0 when the correction fails too) to triangulate_results,
\* which ends the run in phase completed.
C31_ValidationErrorGoesOn ==
    ValidationCallFailed =>
        /\ ~validation.is_valid
        /\ Len(validation.issues) = 1
        /\ llmCalls.layer1 = 1
        /\ bpc \in {"layer2", "returned"}
        /\ bpc = "layer2" => llmCalls.layer2 = 0 /\ pc = "running"
        /\ bpc = "returned" =>
              /\ llmCalls.layer2 = 1
              /\ current_step = "completed"
              /\ retry.validation_issues = validation.issues
              /\ triangulated_table =
                    IF retry.outcome = "returned"
                    THEN ParseTriangulationResult(retry.result)
                    ELSE first_attempt.table
              /\ returned.triangulated_table = triangulated_table

\* The validation call and the correction call both raised, and the build
\* returned the table of layer 0.
C31_Witness ==
    /\ ValidationCallFailed
    /\ bpc = "returned"
    /\ llmCalls.layer2 = 1
    /\ retry.outcome = "failed"
    /\ returned.triangulated_table = first_attempt.table
    /\ Len(first_attempt.table) = TopK

-----------------------------------------------------------------------------
(* Claims about sources without a file and about the gate's progress (Spec) *)

\* The sources the graph has a node for and the caller gave no file.
Unconfigured == Sources \ DOMAIN uploaded_files

\* The log entries the node of source s can write.
TaskLogs(s) ==
    { "Agent " \o s \o ": " \o GetStatusMessage(res) :
         res \in UNION {ProcessSourceResults(s, n) : n \in RowCountsOf(s)} }

\* wait_for_completion has been executed in this step.
GateEvaluated == gateEvals' = gateEvals + 1

\* C34: a source without an entry in uploaded_files keeps, in every state of
\* the run, the status not_uploaded, the empty result (no oracle call) and the
\* empty error its initial state gave it, and the log holds no entry of its
\* task; the step of its node changes no field of the state; and the gate does
\* not count it: when every source that has a file is terminal the gate does
\* not wait and writes no 'processing' step.
C34_UnconfiguredUntouched ==
    /\ [](\A s \in Unconfigured :
             /\ status[s] = "not_uploaded"
             /\ result[s] = EmptyResult
             /\ result[s].oracle_calls = 0
             /\ error[s] = ""
             /\ \A i \in 1..Len(logs) : logs[i] \notin TaskLogs(s))
    /\ [][\A s \in Unconfigured :
             (node[s] = "pending" /\ node'[s] = "done") =>
                 UNCHANGED <<uploaded_files, status, result, error, current_step,
                             progress_percentage, logs, triangulated_result,
                             triangulated_table, route, returned>>]_vars
    /\ [][(GateEvaluated /\ AllConfiguredTerminal) =>
             /\ route' # "wait"
             /\ current_step' \in {"ready_for_triangulation", "all_agents_failed"}]_vars

\* A run with one file, of whatsapp_specs, ended completed; the node of
\* lms_chats had returned and its fields are the initial ones.
C34_Witness ==
    /\ DOMAIN uploaded_files = {"whatsapp_specs"}
    /\ node["lms_chats"] = "done"
    /\ status["lms_chats"] = "not_uploaded"
    /\ pc = "returned"
    /\ returned.current_step = "completed"
    /\ gateEvals = 1

\* C35: every execution of wait_for_completion with at least one configured
\* source writes the progress floor(terminal * 90 / configured), terminal the
\* number of configured sources whose status is completed, failed or excluded;
\* it lies in 0..90 and is 90 exactly when every configured source is terminal.
C35_GateProgressFormula ==
    [][GateEvaluated =>
          LET configured == DOMAIN uploaded_files
              terminal == {k \in configured : AgentStatus(k) \in Terminal}
          IN  /\ Cardinality(configured) >= 1
              /\ progress_percentage' =
                    (Cardinality(terminal) * ExtractionShare) \div Cardinality(configured)
              /\ progress_percentage' \in 0..ExtractionShare
              /\ progress_percentage' = ExtractionShare <=> terminal = configured]_vars

\* The gate wrote 72 for four terminal sources of five configured keys.
C35_Witness ==
    /\ pc = "running"
    /\ gateEvals >= 1
    /\ Cardinality(DOMAIN uploaded_files) = 5
    /\ progress_percentage = 72

\* The sources that have a node and a file.
Configured == Sources \cap DOMAIN uploaded_files

\* C37: the status of a configured source changes at most once in a run, from
\* idle to completed, failed or excluded; in every state a status that is not
\* idle is the status inside the source's result, the error field is the error
\* of the result, and it is not empty only when the status is failed.
C37_StatusChangesOnce ==
    /\ [][\A s \in Configured :
             status'[s] # status[s] =>
                 /\ status[s] = "idle"
                 /\ status'[s] \in Terminal
                 /\ result[s] = EmptyResult]_vars
    /\ [](\A s \in Configured :
             /\ status[s] \in Terminal \cup {"idle"}
             /\ status[s] = "idle" <=> result[s] = EmptyResult
             /\ status[s] # "idle" => status[s] = result[s].status
             /\ error[s] = result[s].error
             /\ error[s] # "" => status[s] = "failed")

\* One source failed with an error text, another completed, a third was
\* excluded, and the run has returned.
C37_Witness ==
    /\ pc = "returned"
    /\ \E s \in Configured : status[s] = "failed" /\ error[s] \in OracleErrors
    /\ \E s \in Configured : status[s] = "completed" /\ error[s] = ""
    /\ \E s \in Configured : status[s] = "excluded" /\ error[s] = ""

-----------------------------------------------------------------------------
(* Claims about runs on the shared workflow singleton (SpecRuns) *)

\* C20 (as stated): a run that goes through the shared workflow with thread_id
\* 'default' shares no state with an earlier run: the log it returns is made of
\* its own entries only, so it starts with its own initialisation entry and
\* holds the start entry of exactly one run.
C20_RunsIsolated ==
    pc = "returned" =>
        /\ returned.logs[1] = "Initialized single-stage workflow"
        /\ Cardinality({i \in 1..Len(returned.logs) : returned.logs[i] = StartLog}) = 1

-----------------------------------------------------------------------------
(* Claims about the streamed run (SpecStream) *)

\* The names of the nodes of the graph.
GraphNodes == Sources \cup {"wait_for_completion", "handle_all_failed", "triangulate_results"}

\* The chunk yielded in this step names one node and holds exactly what the step
\* changed in the state: every field the step changed is in the chunk with its
\* new value (for the log: the entries added), and no field changed otherwise.
ChunkIsNodeUpdate ==
    LET n == chunk'.node
        u == chunk'.update
        has(f) == f \in DOMAIN u
    IN  /\ n \in GraphNodes
        /\ status' = IF has("status") THEN [status EXCEPT ![n] = u.status] ELSE status
        /\ result' = IF has("result") THEN [result EXCEPT ![n] = u.result] ELSE result
        /\ error' = IF has("error") THEN [error EXCEPT ![n] = u.error] ELSE error
        /\ logs' = logs \o (IF has("logs") THEN u.logs ELSE <<>>)
        /\ current_step' = IF has("current_step") THEN u.current_step ELSE current_step
        /\ progress_percentage' =
              IF has("progress_percentage") THEN u.progress_percentage ELSE progress_percentage
        /\ triangulated_result' =
              IF has("triangulated_result") THEN u.triangulated_result ELSE triangulated_result
        /\ triangulated_table' =
              IF has("triangulated_table") THEN u.triangulated_table ELSE triangulated_table
        /\ uploaded_files' = uploaded_files

\* The chunk yielded in this step is the error report of stream_workflow: the
\* caller's dict with phase workflow_failed, and the step ran no node.
ChunkIsErrorReport ==
    /\ chunk'.node = "error"
    /\ chunk'.update.current_step = "workflow_failed"
    /\ UNCHANGED <<uploaded_files, status, result, error, current_step,
                   progress_percentage, logs, triangulated_result, triangulated_table, node>>

\* No step changes the state of a run, or yields, once the consumer closed the generator.
NothingAfterClose ==
    stream = "closed" =>
        UNCHANGED <<uploaded_files, status, result, error, current_step, progress_percentage,
                    logs, triangulated_result, triangulated_table, node, route, gateEvals,
                    buildVars, streamVars>>

-----------------------------------------------------------------------------
(* Claims about the job record (SpecJob) *)

\* C22 (as stated): the progress of a job's record never decreases from one
\* status update to the next, on the paths that end in status failed too.
C22_JobProgressMonotonic ==
    [][\A j \in Jobs : job'[j].progress >= job[j].progress]_vars

\* Place of a status in the lifecycle processing, pns_fetching, csv_fetching,
\* analyzing, completed; a record that does not exist yet comes first.
StatusRank(st) ==
    CASE st = "none"         -> 0
      [] st = "processing"   -> 1
      [] st = "pns_fetching" -> 2
      [] st = "csv_fetching" -> 3
      [] st = "analyzing"    -> 4
      [] st = "completed"    -> 5
      [] st = "failed"       -> 5

\* C23: every change of a job's status goes forward in the order processing,
\* pns_fetching, analyzing, completed (a status whose write was lost is skipped)
\* or to failed from a status that is not terminal; no step changes the status
\* of a job that is completed or failed; a record starts in processing.
C23_JobStatusForward ==
    [][\A j \in Jobs :
          job'[j].status # job[j].status =>
             /\ job[j].status \notin {"completed", "failed"}
             /\ job'[j].status \in {"processing", "pns_fetching", "analyzing", "completed", "failed"}
             /\ job'[j].status # "failed" => StatusRank(job'[j].status) > StatusRank(job[j].status)
             /\ job[j].status = "none" => job'[j].status = "processing"]_vars

\* One job went through every status to completed, the other failed while analyzing.
C23_Witness ==
    \E a, b \in Jobs :
        /\ jpc[a] = "done" /\ job[a].status = "completed" /\ job[a].current_step = "Processing specifications"
        /\ jpc[b] = "done" /\ job[b].status = "failed" /\ job[b].current_step = "Processing specifications"

\* C38 (as stated): every job that was created, its record in status
\* processing, eventually has status completed or failed, whatever happens to
\* the writes of its background task.
C38_JobTerminates ==
    \A j \in Jobs :
        (job[j].status = "processing") ~> (job[j].status \in {"completed", "failed"})

\* C39 (as stated): a job's record has status completed only if the run its
\* task wrapped ended in phase completed, and the task of a run that ended in
\* another phase ends with the record in status failed.
C39_CompletedOnlyAfterCompletedRun ==
    \A j \in Jobs :
        /\ job[j].status = "completed" => run_phase[j] = "completed"
        /\ (jpc[j] = "done" /\ run_phase[j] \in RunPhases \ {"completed"}) =>
              job[j].status = "failed"

-----------------------------------------------------------------------------
(* Claims about the readers of a job's results (SpecRead) *)

\* C40: the request for the results of a job answers with the results only
\* after it found the record's status completed; the step that makes a status
\* completed finds the results key already written; so in every state a
\* completed record has its results unless their time-to-live is over, and a
\* request that found the status completed and then no results ran into that
\* expiry.
C40_ReaderFindsResults ==
    /\ [](\A j \in Jobs :
             /\ reader[j].response = "results" => reader[j].seen = "completed"
             /\ (job[j].status = "completed" /\ results_ttl[j] # "expired") => job[j].results
             /\ (reader[j].seen = "completed" /\ reader[j].response = "results_not_found") =>
                   results_ttl[j] = "expired"
             /\ (reader[j].seen = "completed" /\ reader[j].response # "none") =>
                   reader[j].response \in {"results", "results_not_found"})
    /\ [][\A j \in Jobs :
             (job'[j].status = "completed" /\ job[j].status # "completed") =>
                 job[j].results]_vars

\* A request made between the write of status completed and the expire call of
\* store_job_results was answered with the results.
C40_Witness ==
    /\ jpc["job1"] = "marked"
    /\ reader["job1"] = [seen |-> "completed", response |-> "results"]
    /\ results_ttl["job1"] = "none"

-----------------------------------------------------------------------------
(* Claims about the parser and its safety net (SpecParse) *)

\* The number of presence flags of a record that read 'yes', as the claim counts them.
PresenceCount(rec) ==
    Cardinality({f \in {"search_keywords", "whatsapp_specs", "rejection_comments", "lms_chats"} :
                    Lower(Strip(rec[f])) = "yes"})

\* Trimmed, case-folded name of a record.
NormName(rec) == Lower(Strip(rec.PNS))

\* C5 (as stated): every record of every returned table, sentinel records
\* included, has a score equal to the number of its presence flags that are 'yes'.
C5_ScoreIsPresenceCount_All ==
    ppc = "parsed" =>
        \A i \in 1..Len(table) : table[i].Score = ToString(PresenceCount(table[i]))

\* C5 (amended): every record of a table built from data rows (any returned table
\* but the single sentinel record) has a score equal to the number of its presence
\* flags that are 'yes', whatever score the oracle wrote.
C5_ScoreIsPresenceCount ==
    (ppc = "parsed" /\ IsStr(text) /\ ~HasMarker(text)) =>
        \A i \in 1..Len(table) : table[i].Score = ToString(PresenceCount(table[i]))

\* A returned table holds a row whose oracle score (3, N/A or 4) was wrong.
C5_Witness ==
    /\ ppc = "parsed"
    /\ ~HasMarker(text)
    /\ \E i \in 1..Len(table) : \E j \in 1..Len(table_data) :
          /\ table_data[j].PNS = table[i].PNS
          /\ table_data[j].Score # table[i].Score

\* C6: no two records of a returned table have the same trimmed, case-folded name.
C6_NamesUnique ==
    ppc = "parsed" =>
        \A i, j \in 1..Len(table) : i # j => NormName(table[i]) # NormName(table[j])

\* The oracle wrote the same name twice (in different case) and a table came back.
C6_Witness ==
    /\ ppc = "parsed"
    /\ \E i, j \in 1..Len(table_data) :
          i # j /\ NormName(table_data[i]) = NormName(table_data[j])
    /\ Len(table) >= 2

\* C7: when the rows parsed from the oracle text hold at least 5 pairwise distinct
\* names, the returned table has exactly 5 records.
C7_ExactlyFive ==
    (ppc = "parsed" /\ Cardinality({NormName(table_data[i]) : i \in 1..Len(table_data)}) >= TopK)
        => Len(table) = TopK

\* Six distinct names were parsed and five records came back.
C7_Witness ==
    /\ ppc = "parsed"
    /\ Cardinality({NormName(table_data[i]) : i \in 1..Len(table_data)}) > TopK
    /\ Len(table) = TopK

\* Number of options a record of the consensus table is to hold.
MaxOptions == 10

\* C8 (as stated, its part that no count of available options can excuse): no
\* record of a table built from data rows holds more than 10 options, also when
\* the oracle wrote a row with more.
C8_TenOptions ==
    (ppc = "parsed" /\ ~HasMarker(text)) =>
        \A i \in 1..Len(table) : OptionCount(table[i].Options) <= MaxOptions

\* The fields of a record of the consensus table.
RecordFields ==
    {"Rank", "Score", "PNS", "Options", "search_keywords", "whatsapp_specs",
     "rejection_comments", "lms_chats"}

\* C18: _parse_triangulation_result returns a list of records for every input and
\* never raises: on every content the oracle can hand over the function has a
\* value, every element of it is a record of the table, it is what the call
\* returned, and when parsing failed inside (the content is no text) it is
\* exactly the one sentinel error record.
C18_ParserTotal ==
    LET t == ParseTriangulationResult(text) IN
    /\ \A i \in 1..Len(t) : DOMAIN t[i] = RecordFields
    /\ ~IsStr(text) => t = <<ParseErrorSentinel>>
    /\ ppc = "parsed" => table = t

\* The parser was run on a content that is no text and returned one record.
C18_Witness ==
    /\ ppc = "parsed"
    /\ ~IsStr(text)
    /\ Len(table) = 1
    /\ table[1].PNS = "Parse Error"

\* C19 (as stated, its parser part): when the oracle text is not empty and none of
\* its lines parses as a data row, the parser returns exactly one sentinel record,
\* not an empty table.
C19_SentinelWhenNoRows ==
    (ppc = "parsed" /\ IsStr(text) /\ Len(text) > 0 /\ ParseLines(text, <<>>) = <<>>) =>
        Len(table) = 1

-----------------------------------------------------------------------------
(* Claims about the order, the ranks and the origin of the records (SpecParse) *)

\* The safety net ran: the text is a text without the marker phrase and at least
\* one of its lines was accepted as a row.
SafetyNetRan == ppc = "parsed" /\ IsStr(text) /\ ~HasMarker(text) /\ table_data # <<>>

\* Index in table_data of the first row that carries the name of rec.
FirstIndex(rec) ==
    CHOOSE j \in 1..Len(table_data) :
        /\ NormName(table_data[j]) = NormName(rec)
        /\ \A k \in 1..(j - 1) : NormName(table_data[k]) # NormName(rec)

\* C25 (as stated): the records of the returned table are in non-increasing order
\* of their final score (the number of their 'yes' flags), and two records of
\* equal final score are in the order their rows had in the oracle text.
C25_SortedByFinalScore ==
    SafetyNetRan =>
        \A i, j \in 1..Len(table) :
            i < j =>
               /\ PresenceCount(table[i]) >= PresenceCount(table[j])
               /\ PresenceCount(table[i]) = PresenceCount(table[j])
                     => FirstIndex(table[i]) < FirstIndex(table[j])

\* The names the parsed rows carry and the names the returned table carries.
ParsedNames == {NormName(table_data[i]) : i \in 1..Len(table_data)}
ReturnedNames == {NormName(table[i]) : i \in 1..Len(table)}

\* C26 (as stated): when more than 5 unique records were parsed and the table was
\* cut to 5, no dropped record has a recomputed score strictly greater than the
\* recomputed score of a record that was kept.
C26_NoBetterRecordDropped ==
    (SafetyNetRan /\ Cardinality(ParsedNames) > TopK) =>
        \A d \in 1..Len(table_data) :
            (NormName(table_data[d]) \notin ReturnedNames /\ FirstIndex(table_data[d]) = d) =>
                \A i \in 1..Len(table) :
                    PresenceCount(table_data[d]) <= PresenceCount(table[i])

\* C27: the rank fields of a returned table of N records are 1, 2, ..., N in
\* table order, whatever ranks the rows had when they were parsed.
C27_RanksSequential ==
    ppc = "parsed" => \A i \in 1..Len(table) : table[i].Rank = i

\* A table came back in which a record has another rank than its row had when it
\* was parsed: a duplicate was dropped or the sort moved it.
C27_Witness ==
    /\ SafetyNetRan
    /\ Len(table) = TopK
    /\ \E i \in 1..Len(table) : table_data[FirstIndex(table[i])].Rank # i

\* C28: every record the safety net returns is the first parsed row that carries
\* its trimmed, case-folded name, with name, options and presence flags as the
\* oracle wrote them; no name is returned twice and none that was not parsed;
\* with at most 5 unique names every one of them is returned.
C28_FirstOccurrenceKept ==
    SafetyNetRan =>
        /\ \A i \in 1..Len(table) :
              /\ NormName(table[i]) \in ParsedNames
              /\ LET first == table_data[FirstIndex(table[i])] IN
                    /\ table[i].PNS = first.PNS
                    /\ table[i].Options = first.Options
                    /\ table[i].search_keywords = first.search_keywords
                    /\ table[i].whatsapp_specs = first.whatsapp_specs
                    /\ table[i].rejection_comments = first.rejection_comments
                    /\ table[i].lms_chats = first.lms_chats
        /\ Cardinality(ReturnedNames) = Len(table)
        /\ Cardinality(ParsedNames) <= TopK => ReturnedNames = ParsedNames

\* The oracle wrote a name twice with different flags, in fewer than 5 unique
\* names, and every unique name came back.
C28_Witness ==
    /\ SafetyNetRan
    /\ Len(table) < TopK
    /\ Len(table_data) > Len(table)
    /\ \E i, j \in 1..Len(table_data) :
          /\ i < j
          /\ NormName(table_data[i]) = NormName(table_data[j])
          /\ table_data[i].whatsapp_specs # table_data[j].whatsapp_specs

-----------------------------------------------------------------------------
(* Claims about one extraction task (SpecTask) *)

\* The calls a task of k chunks makes when none fails: chunk 1 to chunk k, then
\* the merge call when k > 1.
CallsOf(k) ==
    [i \in 1..(IF k > 1 THEN k + 1 ELSE k) |->
        IF i <= k THEN <<"chunk", i>> ELSE <<"merge", 0>>]

\* C32: the oracle calls of a task of k chunks are, at every moment, the first
\* calls of the list chunk 1, ..., chunk k, merge (merge only when k > 1), so no
\* call is made twice or out of order; a task that returns completed made all
\* of them, k calls for k = 1, where the text it returns is the answer to its
\* one chunk, and k + 1 for k > 1, where the merge call got the k chunk answers
\* in chunk order; a call that fails is the last call of the task, which
\* returns with status failed.
C32_OracleCallsPerTask ==
    LET k == Len(data_chunks)
        made == Len(oracle_log)
    IN  /\ made <= Len(CallsOf(k))
        /\ \A i \in 1..made :
              /\ <<oracle_log[i].kind, oracle_log[i].index>> = CallsOf(k)[i]
              /\ ~oracle_log[i].ok =>
                    i = made /\ tpc = "returned" /\ task_result.status = "failed"
        /\ (tpc = "returned" /\ k >= 1) =>
              /\ task_result.status \in {"completed", "failed"}
              /\ task_result.status = "failed" => ~oracle_log[made].ok
              /\ task_result.status = "completed" =>
                    /\ made = (IF k = 1 THEN k ELSE k + 1)
                    /\ \A i \in 1..made : oracle_log[i].ok
                    /\ Len(all_chunk_results) = k
                    /\ k = 1 => task_result.extracted_specs = all_chunk_results[1]
                    /\ k > 1 => oracle_log[made].input = all_chunk_results

\* A task of three chunks returned completed after four calls.
C32_Witness ==
    /\ tpc = "returned"
    /\ task_result.status = "completed"
    /\ Len(data_chunks) = 3
    /\ Len(oracle_log) = 4
    /\ oracle_log[4].kind = "merge"

\* C33: a CSV of n >= MinRows rows whose columns are found is cut into
\* ceil(n / M) chunks, M the chunk size of the source, smaller for lms_chats
\* than for the other sources; one chunk when n <= M; chunk i is rows (i-1)*M to
\* i*M - 1 of the frame (to the last row, for the last chunk), so the chunks do
\* not overlap, cover every row and follow the order of the frame, which is the
\* order of the CSV but for search_keywords, whose rows are sorted by the
\* frequency column, descending.
C33_ChunksPartitionRows ==
    (tpc # "start" /\ data_chunks # <<>>) =>
        LET n == task.rows
            M == ChunkRows(task.source)
            k == Len(data_chunks)
        IN  /\ n >= MinRows
            /\ LmsChunkRows < DefaultChunkRows
            /\ M = (IF task.source = "lms_chats" THEN LmsChunkRows ELSE DefaultChunkRows)
            /\ k = (n + M - 1) \div M
            /\ n <= M => k = 1
            /\ data_chunks[1].first = 0
            /\ data_chunks[k].last = n - 1
            /\ \A i \in 1..k :
                  /\ data_chunks[i].first = (i - 1) * M
                  /\ data_chunks[i].last = Min(i * M, n) - 1
                  /\ data_chunks[i].first <= data_chunks[i].last
                  /\ i < k => data_chunks[i + 1].first = data_chunks[i].last + 1
                  /\ data_chunks[i].order =
                        (IF task.source = "search_keywords"
                         THEN "frequency_descending" ELSE "input")

\* A search_keywords CSV one row longer than two chunks was cut into three
\* chunks, the last of one row.
C33_Witness ==
    /\ task.source = "search_keywords"
    /\ task.rows = 2 * DefaultChunkRows + 1
    /\ Len(data_chunks) = 3
    /\ data_chunks[3] = [first |-> 2 * DefaultChunkRows, last |-> 2 * DefaultChunkRows,
                         order |-> "frequency_descending"]
    /\ tpc = "returned"

-----------------------------------------------------------------------------
(* Claims about the acceptance of a row (SpecRows) *)

\* The lines of the text that have at least MinFields fields once one leading
\* and one trailing delimiter are stripped.
WideLines == {i \in 1..Len(text) : Len(text[i].cells) >= MinFields}

\* The lines of the text that are rows with a score int() refuses: at least
\* MinFields fields, not the header, not starting with "|-".
NonNumericRows ==
    {i \in WideLines :
        /\ ~text[i].hdr
        /\ ~(text[i].lead /\ text[i].cells[1] \in {"---", "-1"})
        /\ Strip(text[i].cells[1]) \notin NumericStrings}

\* C36: every accepted row comes from a line of at least MinFields fields (its
\* fields are the first seven of the line, stripped), and no more rows are
\* accepted than the text has such lines; a row whose score field is not
\* numeric is accepted with score value 0 and the parser does not fail; and in
\* the table returned the score of every record, that row included, is the
\* number of its 'yes' presence flags.
C36_RowAcceptance ==
    ppc = "parsed" =>
        /\ Len(table_data) <= Cardinality(WideLines)
        /\ \A j \in 1..Len(table_data) :
              \E i \in WideLines :
                 /\ table_data[j].Score = Strip(text[i].cells[1])
                 /\ table_data[j].PNS = Strip(text[i].cells[2])
                 /\ table_data[j].lms_chats = Strip(text[i].cells[7])
        /\ \A i \in NonNumericRows :
              /\ table # <<ParseErrorSentinel>>
              /\ \E j \in 1..Len(table_data) :
                    /\ table_data[j].PNS = Strip(text[i].cells[2])
                    /\ table_data[j].Score = Strip(text[i].cells[1])
                    /\ table_data[j].score_value = 0
              /\ \E k \in 1..Len(table) :
                    /\ table[k].PNS = Strip(text[i].cells[2])
                    /\ table[k].Score = ToString(PresenceCount(table[k]))
        /\ \A k \in 1..Len(table) : table[k].Score = ToString(PresenceCount(table[k]))

\* The text was a row with score "N/A" and one 'yes', and a line of six fields
\* between outer delimiters: one row was accepted, and its score is "1".
C36_Witness ==
    /\ ppc = "parsed"
    /\ Len(text) = 2
    /\ Len(table_data) = 1
    /\ table_data[1].Score = "N/A"
    /\ table_data[1].score_value = 0
    /\ table[1].Score = "1"
    /\ \E i \in 1..2 : Len(text[i].cells) = MinFields - 1 /\ PipeCount(text[i]) >= MinPipes

====
